---- MODULE Spec2Model ----
(***************************************************************************)
(* A model of the daily-sharing plugin (src/main.py and the services it    *)
(* calls): the rotation of content types kept in sharing_state.json, the   *)
(* cron task wrapper with its jitter, debounce and lock, the share command *)
(* and the daily_share tool, and the per-recipient loop of _execute_share. *)
(*                                                                         *)
(* Python dicts are functions whose DOMAIN is the set of keys present;     *)
(* None is the string "None"; a text is a sequence of characters.  Every   *)
(* action is one resumption of a coroutine: the completion of the await it *)
(* was suspended in, followed by the synchronous code up to the next await.*)
(***************************************************************************)
EXTENDS Integers, Sequences, FiniteSets, TLC

VARIABLES
  now,              \* datetime.now(), in seconds since midnight of day 0
  conf,             \* the plugin configuration (basic_conf, receiver)
  state_file,       \* the content of sharing_state.json (a dict; {} when missing)
  sharing_history,  \* DailySharingPlugin.sharing_history
  lock_holder,      \* who holds DailySharingPlugin._lock, or "None"
  last_share_time,  \* DailySharingPlugin._last_share_time (NoTime when None)
  is_terminated,    \* DailySharingPlugin._is_terminated
  run,              \* the locals of each coroutine (cron task, command, tool task)
  calls,            \* how many triggers and injected failures there have been so far
  log               \* history variable: what is remembered of past triggers and decisions

vars == <<now, conf, state_file, sharing_history, lock_holder, last_share_time,
          is_terminated, run, calls, log>>

-----------------------------------------------------------------------------
(* Bounds of the model.                                                    *)

\* Cron triggers, manual triggers (command or tool) and sequence resets issued in
\* one behaviour, and the failures the collaborators produce in it.
MaxCron == 2
MaxManual == 1
MaxReset == 1
MaxFaults == 1
\* The clock stops after this many seconds past StartTime.
MaxElapsed == 60
\* Automatic decisions taken in one behaviour of the sequential scheduler.
MaxDecisions == 4
\* The largest sequence_index a state file left by an earlier configuration holds.
MaxStaleIndex == 3

\* The longest allow-list of news sources.
MaxAllow == 2

\* The topics recorded in a behaviour of the topic history on its own.
MaxTopics == 3

\* The entries appended to the sent history on its own.
MaxAppends == 3

\* The messages handed to the group analysis and its group_intensity_check_count.
MaxMessages == 5
MaxCheckCount == 2

\* The max_retries a call of the generation wrapper is made with.
MaxRetries == 2

\* The hours that pass and the restarts of the process while the state file is
\* allowed to fail.
MaxHours == 3
MaxRestarts == 1

\* The rows inserted into topic_history and into sent_history, and the days that pass,
\* in a behaviour of the database.
MaxRecords == 2
MaxSent == 1
MaxDays == 2

-----------------------------------------------------------------------------
(* Program constants.                                                      *)

DebounceSeconds == 60
ActiveWindowSeconds == 1200
DiscussingSeconds == 600
SecondsPerMinute == 60
SecondsPerHour == 3600
HoursPerDay == 24
SummaryLen == 15

None == "None"
NoTime == -1

SharingTypes == {"greeting", "news", "mood", "knowledge", "recommendation"}
TimePeriods == {"dawn", "morning", "forenoon", "afternoon", "evening", "night",
                "late_night"}

\* config.SHARING_TYPE_SEQUENCES
SHARING_TYPE_SEQUENCES ==
  [p \in TimePeriods |->
     CASE p = "dawn" -> <<"mood">>
       [] p = "morning" -> <<"greeting">>
       [] p = "forenoon" -> <<"news", "knowledge">>
       [] p = "afternoon" -> <<"news", "knowledge">>
       [] p = "evening" -> <<"recommendation", "news">>
       [] p = "night" -> <<"recommendation", "mood">>
       [] p = "late_night" -> <<"mood", "greeting">>]

-----------------------------------------------------------------------------
(* Python dicts.                                                           *)

EmptyDict == [k \in {} |-> None]

\* d.get(k, default)
Get(d, k, default) == IF k \in DOMAIN d THEN d[k] ELSE default

\* d with d[k] = v
Put(d, k, v) == [x \in DOMAIN d \cup {k} |-> IF x = k THEN v ELSE d[x]]

\* d.update(e)
Update(d, e) == [x \in DOMAIN d \cup DOMAIN e |-> IF x \in DOMAIN e THEN e[x] ELSE d[x]]

\* The keys of the state file that make up the schedule state.
ScheduleKeys == {"sequence_index", "last_period", "last_timestamp", "last_type"}

\* The schedule state a state file holds: its schedule keys, absent ones left absent.
ScheduleState(d) == [k \in DOMAIN d \cap ScheduleKeys |-> d[k]]

\* {"sequence_index": 0, "last_period": None}
MutResetKeepsCursor == [k \in {"sequence_index", "last_period"} |->
                          IF k = "sequence_index" THEN 1 ELSE None]

ResetState == [k \in {"sequence_index", "last_period"} |->
                 IF k = "sequence_index" THEN 0 ELSE None]

-----------------------------------------------------------------------------
(* The clock and the period classifier.                                    *)

Hour(t) == (t \div SecondsPerHour) % HoursPerDay

\* DailySharingPlugin._get_curr_period
MutNightFromTwenty(h) ==
  IF 0 <= h /\ h < 6 THEN "dawn"
  ELSE IF 6 <= h /\ h < 9 THEN "morning"
  ELSE IF 9 <= h /\ h < 12 THEN "forenoon"
  ELSE IF 12 <= h /\ h < 16 THEN "afternoon"
  ELSE IF 16 <= h /\ h < 20 THEN "evening"
  ELSE IF 20 <= h /\ h < 22 THEN "night"
  ELSE "late_night"

PeriodOfHour(h) ==
  IF 0 <= h /\ h < 6 THEN "dawn"
  ELSE IF 6 <= h /\ h < 9 THEN "morning"
  ELSE IF 9 <= h /\ h < 12 THEN "forenoon"
  ELSE IF 12 <= h /\ h < 16 THEN "afternoon"
  ELSE IF 16 <= h /\ h < 19 THEN "evening"
  ELSE IF 19 <= h /\ h < 22 THEN "night"
  ELSE "late_night"

CurrPeriod == PeriodOfHour(Hour(now))

-----------------------------------------------------------------------------
(* The sequence scheduler: _load_state, _decide_type_with_state.           *)

\* _load_state: the file's dict, or the default when it is missing or empty.
LoadState(file) == IF DOMAIN file = {} THEN ResetState ELSE file

\* config_key_map and the fallback to SHARING_TYPE_SEQUENCES.
MutSingletonDefault(c, period) ==
  IF c.sequences[period] /= <<>> THEN c.sequences[period]
  ELSE <<"greeting">>

SequenceFor(c, period) ==
  IF c.sequences[period] /= <<>> THEN c.sequences[period]
  ELSE SHARING_TYPE_SEQUENCES[period]

\* Lines 788-789: a period other than last_period restarts the rotation.
MutNoPeriodReset(state, period) == state

ResetOnPeriodChange(state, period) ==
  IF Get(state, "last_period", None) /= period
  THEN Put(state, "sequence_index", 0)
  ELSE state

\* Lines 807-808: an index beyond the sequence is clamped to 0.
ClampIndex(idx, seq) == IF idx >= Len(seq) THEN 0 ELSE idx

\* Line 813: the cursor after the decision.
MutNoWrap(idx, seq) == idx + 1

MutNoAdvance(idx, seq) == idx

NextIndex(idx, seq) == (idx + 1) % Len(seq)

\* SharingType(selected), GREETING when selected is no content type.
ToSharingType(selected) == IF selected \in SharingTypes THEN selected ELSE "greeting"

\* Whether _decide_type_with_state consults the rotation (lines 782-785).
UsesRotation(c) == c.sharing_type \notin SharingTypes

\* Lines 786-815: the state saved by a decision that loaded `loaded`.
DecideState(loaded, period, c, t) ==
  LET s0 == ResetOnPeriodChange(loaded, period)
      seq == SequenceFor(c, period)
      idx == ClampIndex(Get(s0, "sequence_index", 0), seq)
      selected == seq[idx + 1]
  IN Put(Put(Put(Put(s0, "last_period", period),
                 "sequence_index", NextIndex(idx, seq)),
             "last_timestamp", t),
         "last_type", selected)

\* Lines 819-820: the type returned by the decision that saved `saved`.
DecidedType(saved) == ToSharingType(saved["last_type"])

-----------------------------------------------------------------------------
(* Texts and the per-target topic history kept in the state file.          *)

RECURSIVE Replace(_, _)
\* str.replace(pat, ""): every occurrence of pat removed, left to right.
Replace(s, pat) ==
  IF Len(s) < Len(pat) THEN s
  ELSE IF SubSeq(s, 1, Len(pat)) = pat
       THEN Replace(SubSeq(s, Len(pat) + 1, Len(s)), pat)
       ELSE <<Head(s)>> \o Replace(Tail(s), pat)

Truncate(s, n) == IF Len(s) > n THEN SubSeq(s, 1, n) ELSE s

\* Line 244: content_summary.split("\n")[0][:15] with two words removed by replace.
\* A topic of the model holds no line break; the characters of the two removed
\* words are written "tui", "jian" and "fen", "xiang".
Summary(topic) ==
  Replace(Replace(Truncate(topic, SummaryLen), <<"tui", "jian">>), <<"fen", "xiang">>)

\* history[-limit:] when the list is longer than limit.
KeepLast(h, limit) == IF Len(h) > limit THEN SubSeq(h, Len(h) - limit + 1, Len(h)) ELSE h

\* ContentService._load_state_safe: the file's dict ({} when it is missing).
LoadStateSafe(file) == file

\* _update_history, lines 232-252: the dict handed to _save_state_safe.
WithTopic(state, key_type, topic, target_id, limit) ==
  LET th == Get(state, "targets_history", EmptyDict)
      mine == Get(th, target_id, EmptyDict)
      history == Append(Get(mine, key_type, <<>>), Summary(topic))
  IN Put(state, "targets_history",
         Put(th, target_id, Put(mine, key_type, KeepLast(history, limit))))

\* _get_history_str, lines 260-263: the topics of the file for a target and a key.
UsedTopics(file, key_type, target_id) ==
  Get(Get(Get(LoadStateSafe(file), "targets_history", EmptyDict), target_id, EmptyDict),
      key_type, <<>>)

\* _save_state_safe, lines 191-192: the dict written to the file.
MergedState(current, state) == Update(current, state)

\* The key _gen_knowledge and _gen_rec record a topic under.
TopicKey(stype) == IF stype = "knowledge" THEN "knowledge" ELSE "rec"

TopicTypes == {"knowledge", "recommendation"}

-----------------------------------------------------------------------------
(* Recipients.                                                              *)

NoTarget == <<>>

GroupTarget(gid) == <<"GroupMessage", gid>>
FriendTarget(uid) == <<"FriendMessage", uid>>

\* Line 576: "group" in uid.lower() (or "room", "guild").
IsGroup(uid) == uid[1] = "GroupMessage"

NonEmpty(id) == id /= ""

\* Lines 561-567: the configured groups, then the configured users.
MutUsersFirst(c) ==
  LET gs == SelectSeq(c.groups, NonEmpty)
      us == SelectSeq(c.users, NonEmpty)
  IN [i \in 1..Len(us) |-> FriendTarget(us[i])] \o [i \in 1..Len(gs) |-> GroupTarget(gs[i])]

ConfiguredTargets(c) ==
  LET gs == SelectSeq(c.groups, NonEmpty)
      us == SelectSeq(c.users, NonEmpty)
  IN [i \in 1..Len(gs) |-> GroupTarget(gs[i])] \o [i \in 1..Len(us) |-> FriendTarget(us[i])]

\* ContextService.check_group_strategy (group_info is {} when there is no snapshot).
MutMinimalNeedsBoth(c, group_info) ==
  IF DOMAIN group_info = {} THEN TRUE
  ELSE LET is_discussing == Get(group_info, "is_discussing", FALSE)
           intensity == Get(group_info, "chat_intensity", "low")
       IN IF c.group_share_strategy = "cautious"
          THEN ~(is_discussing /\ intensity = "high")
          ELSE IF c.group_share_strategy = "minimal"
               THEN ~(is_discussing /\ intensity /= "low")
               ELSE TRUE

check_group_strategy(c, group_info) ==
  IF DOMAIN group_info = {} THEN TRUE
  ELSE LET is_discussing == Get(group_info, "is_discussing", FALSE)
           intensity == Get(group_info, "chat_intensity", "low")
       IN IF c.group_share_strategy = "cautious"
          THEN ~(is_discussing /\ intensity = "high")
          ELSE IF c.group_share_strategy = "minimal"
               THEN ~(is_discussing \/ intensity /= "low")
               ELSE TRUE

\* The snapshots get_history_data can attach to a group's history: what
\* _analyze_group_chat returns ({} when it fails), of which the policy reads
\* is_discussing and chat_intensity.
GroupInfos ==
  {EmptyDict} \cup
  {[k \in {"is_discussing", "chat_intensity"} |->
      IF k = "is_discussing" THEN d ELSE i] :
     d \in BOOLEAN, i \in {"low", "medium", "high"}}

\* What get_history_data can return for a recipient, as far as the policy reads it:
\* a dict without "group_info" (always so for a one-to-one recipient), or one with
\* a group's snapshot.
HistDatas(uid) ==
  {EmptyDict} \cup
  (IF IsGroup(uid) THEN {[k \in {"group_info"} |-> g] : g \in GroupInfos} ELSE {})

\* _execute_share, lines 576-583: the recipient is skipped by the policy.
MutSuppressedWithoutSnapshot(c, uid, specific_target, hist_data) ==
  /\ specific_target = NoTarget
  /\ "group_info" \notin DOMAIN hist_data
       \/ ~check_group_strategy(c, Get(hist_data, "group_info", EmptyDict))

MutNeverSuppressed(c, uid, specific_target, hist_data) == FALSE

Suppressed(c, uid, specific_target, hist_data) ==
  /\ IsGroup(uid)
  /\ "group_info" \in DOMAIN hist_data
  /\ specific_target = NoTarget
  /\ ~check_group_strategy(c, hist_data["group_info"])

-----------------------------------------------------------------------------
(* The sent history.                                                        *)

history_limit == 100

\* _append_history, lines 832-834.
MutKeepOldest(h, record) == Truncate(Append(h, record), history_limit)

AppendHistory(h, record) == KeepLast(Append(h, record), history_limit)

\* The entry _execute_share appends; `delivered` is a history field of the model
\* (whether _send delivered the message).
\* The timestamp and the content preview are left out.
HistoryEntry(uid, stype, success, delivered) ==
  [target |-> uid, type |-> stype, success |-> success, delivered |-> delivered]

-----------------------------------------------------------------------------
(* The coroutines.                                                          *)

\* The cron task (_task_wrapper; the job has max_instances=1), one invocation of
\* the share command (handle_share_main) and one daily_share tool task.
Tasks == {"cron", "cmd", "tool"}
Runs == {"cron", "cmd"}

\* The targets a command or a tool call can come from, the types it can force.
SessionTargets == {GroupTarget("g1"), FriendTarget("u1")}
ForceTypes == {"mood", "knowledge"}
ToolTypes == {"news", "recommendation"}
Topics == {<<"k">>}

\* The clock of the model starts one minute before 09:00 and moves in ticks.
TickSeconds == 60
StartTime == 9 * SecondsPerHour - SecondsPerMinute

\* The positions of a task: "idle" (not started, or ended), "jitter" (line 503),
\* "decide_load" and "decide_write" (_load_state and _save_state in
\* _decide_type_with_state), "hist" (a recipient's get_history_data and generate),
\* "upd_load", "save_load", "save_write" (the three file accesses of
\* _update_history), "sleep" (after the recipient's history entry).
IdleRun ==
  [pc |-> "idle", force_type |-> None, specific_target |-> NoTarget,
   period |-> None, stype |-> None, targets |-> <<>>, idx |-> 0, st |-> EmptyDict,
   topic |-> <<>>, wake |-> NoTime, trigger_time |-> NoTime]

\* A task is executing a run (or the tool's share) from its start to its end.
Running(t) == run[t].pc \notin {"idle", "jitter"}

\* The positions in which a file write has been handed to the executor.
WritePcs == {"decide_write", "save_write"}

\* Lines 513-514: the last run started less than 60 seconds ago.
Debounced(last, t) == last /= NoTime /\ t - last < DebounceSeconds

\* Line 493: random.randint(0, random_delay_min * 60), sampled at the clock's ticks.
JitterDelays(c) ==
  {d \in 0..(c.cron_random_delay * SecondsPerMinute) : d % TickSeconds = 0}

\* Lines 573-574: the head of the recipient loop, reached with index i.
LoopHead(r, i) ==
  IF i > Len(r.targets) \/ is_terminated THEN IdleRun
  ELSE [r EXCEPT !.idx = i, !.pc = "hist"]

\* Lines 548-574: the targets are resolved and the loop is entered.
StartLoop(r) ==
  LET targets == IF r.specific_target /= NoTarget THEN <<r.specific_target>>
                 ELSE ConfiguredTargets(conf)
  IN LoopHead([r EXCEPT !.targets = targets], 1)

\* _execute_share, lines 538-546: the locals when the run first suspends.
EnterExecute(force, specific) ==
  IF is_terminated THEN IdleRun
  ELSE LET base == [IdleRun EXCEPT !.force_type = force, !.specific_target = specific,
                                   !.period = CurrPeriod]
       IN IF force /= None THEN StartLoop([base EXCEPT !.stype = force])
          ELSE IF ~UsesRotation(conf)
               THEN StartLoop([base EXCEPT !.stype = conf.sharing_type])
               ELSE [base EXCEPT !.pc = "decide_load"]

\* Lines 659-662: an exception while processing a recipient is logged and the loop
\* goes on with the next recipient.
MutAbortOnFailure(r) == IdleRun

AfterRecipientFailure(r) == LoopHead(r, r.idx + 1)

\* Lines 594-603: no content; the failure is recorded, then `continue`.
AfterNoContent(r) == [r EXCEPT !.pc = "sleep"]

\* The task's locals become r; a cron run that ends leaves `async with self._lock`.
Continue(t, r) ==
  /\ run' = [run EXCEPT ![t] = r]
  /\ lock_holder' = IF r.pc = "idle" /\ lock_holder = t THEN None ELSE lock_holder

\* A collaborator may fail while the failures of the behaviour are not used up.
MayFail == calls["fault"] < MaxFaults

Fault == calls' = [calls EXCEPT !["fault"] = @ + 1]

-----------------------------------------------------------------------------
(* _task_wrapper.                                                           *)

\* Lines 507-526, after the jitter: debounce, lock check, acquisition, and the
\* start of _execute_share.  tt is the time the trigger arrived (line 495); lg is
\* log, where the trigger time of the run that executes is kept.
CronProceed(tt, lg) ==
  IF is_terminated \/ Debounced(last_share_time, now) \/ lock_holder /= None
  THEN /\ run' = [run EXCEPT !["cron"] = IdleRun]
       /\ log' = lg
       /\ UNCHANGED <<lock_holder, last_share_time>>
  ELSE /\ lock_holder' = "cron"
       /\ last_share_time' = now
       /\ run' = [run EXCEPT !["cron"] = EnterExecute(None, NoTarget)]
       /\ log' = [lg EXCEPT !.triggered = tt]

\* The scheduler fires the job (_setup_cron: a five-field cron expression, so at the
\* start of a minute and once in it; max_instances=1): lines 477-505.
CronFire ==
  /\ ~is_terminated
  /\ run["cron"].pc = "idle"
  /\ now % SecondsPerMinute = 0
  /\ log.fired /= now
  /\ calls["cron"] < MaxCron
  /\ calls' = [calls EXCEPT !["cron"] = @ + 1]
  /\ \E delay \in JitterDelays(conf) :
       IF delay > 0
       THEN /\ run' = [run EXCEPT !["cron"] =
                         [IdleRun EXCEPT !.pc = "jitter", !.wake = now + delay,
                                         !.trigger_time = now]]
            /\ log' = [log EXCEPT !.fired = now]
            /\ UNCHANGED <<lock_holder, last_share_time>>
       ELSE CronProceed(now, [log EXCEPT !.fired = now])
  /\ UNCHANGED <<now, conf, state_file, sharing_history, is_terminated>>

\* asyncio.sleep(delay_seconds) returns.
CronWake ==
  /\ run["cron"].pc = "jitter"
  /\ now >= run["cron"].wake
  /\ CronProceed(run["cron"].trigger_time, log)
  /\ UNCHANGED <<now, conf, state_file, sharing_history, is_terminated, calls>>

-----------------------------------------------------------------------------
(* handle_share_main, daily_share_tool and the operations of the command.   *)

\* The command with "auto" (force = None) or a type, with or without "broadcast".
CmdShare ==
  /\ ~is_terminated
  /\ run["cmd"].pc = "idle"
  /\ calls["manual"] < MaxManual
  /\ calls' = [calls EXCEPT !["manual"] = @ + 1]
  /\ \E force \in ForceTypes \cup {None}, specific \in SessionTargets \cup {NoTarget} :
       run' = [run EXCEPT !["cmd"] = EnterExecute(force, specific)]
  /\ log' = [log EXCEPT !.triggered = now]
  /\ UNCHANGED <<now, conf, state_file, sharing_history, lock_holder, last_share_time,
                 is_terminated>>

\* daily_share_tool, lines 206-223: refused while the lock is held, else a task.
ToolCall ==
  /\ ~is_terminated
  /\ run["tool"].pc = "idle"
  /\ calls["manual"] < MaxManual
  /\ calls' = [calls EXCEPT !["manual"] = @ + 1]
  /\ IF lock_holder /= None
     THEN UNCHANGED <<run, log>>
     ELSE /\ \E ty \in ToolTypes, origin \in SessionTargets :
               run' = [run EXCEPT !["tool"] =
                         [IdleRun EXCEPT !.pc = "hist", !.force_type = ty, !.stype = ty,
                                         !.specific_target = origin,
                                         !.targets = <<origin>>, !.idx = 1,
                                         !.period = CurrPeriod]]
          /\ log' = [log EXCEPT !.triggered = now]
  /\ UNCHANGED <<now, conf, state_file, sharing_history, lock_holder, last_share_time,
                 is_terminated>>

\* _cmd_reset_seq: _save_state({"sequence_index": 0, "last_period": None}).
CmdResetSeq ==
  /\ ~is_terminated
  /\ calls["reset"] < MaxReset
  /\ calls' = [calls EXCEPT !["reset"] = @ + 1]
  /\ state_file' = ResetState
  /\ UNCHANGED <<now, conf, sharing_history, lock_holder, last_share_time, is_terminated,
                 run, log>>

-----------------------------------------------------------------------------
(* _decide_type_with_state inside a run.                                    *)

\* _load_state returns; lines 788-815 compute the state and hand it to _save_state.
DecideLoad(t) ==
  /\ run[t].pc = "decide_load"
  /\ LET r == run[t]
     IN run' = [run EXCEPT ![t] =
                  [r EXCEPT !.pc = "decide_write",
                            !.st = DecideState(LoadState(state_file), r.period, conf, now)]]
  /\ UNCHANGED <<now, conf, state_file, sharing_history, lock_holder, last_share_time,
                 is_terminated, calls, log>>

\* _save_state has written the file; the decision returns the selected type, and
\* the run goes on to its recipients (lines 548-574).
DecideWrite(t) ==
  /\ run[t].pc = "decide_write"
  /\ state_file' = run[t].st
  /\ LET r == run[t]
     IN Continue(t, StartLoop([r EXCEPT !.stype = DecidedType(r.st), !.st = EmptyDict]))
  /\ UNCHANGED <<now, conf, sharing_history, last_share_time, is_terminated, calls, log>>

-----------------------------------------------------------------------------
(* _execute_share: one recipient.                                           *)

\* Lines 608-657: the media are generated (which may raise), _send delivers or fails
\* and swallows the failure (lines 666, 726), the success entry is appended.
SendAndRecord(t, r) ==
  \/ /\ MayFail
     /\ Fault
     /\ Continue(t, AfterRecipientFailure(r))
     /\ UNCHANGED sharing_history
  \/ \E ok \in {b \in BOOLEAN : b \/ MayFail} :
       LET delivered == ok /\ ~is_terminated
       IN /\ sharing_history' =
               AppendHistory(sharing_history,
                             HistoryEntry(r.targets[r.idx], r.stype, TRUE, delivered))
          /\ Continue(t, [r EXCEPT !.pc = "sleep", !.st = EmptyDict, !.topic = <<>>])
          /\ calls' = IF ok THEN calls ELSE [calls EXCEPT !["fault"] = @ + 1]

\* get_history_data returns (lines 578-583: the suppression policy), generate is
\* called and comes back with nothing (lines 594-603) or with its text; knowledge
\* and recommendation then record their topic (_update_history) before returning.
\* hist_data is what get_history_data returned.
RecipientStep(t, hist_data) ==
  /\ t \in Runs
  /\ run[t].pc = "hist"
  /\ LET r == run[t]
         uid == r.targets[r.idx]
     IN IF Suppressed(conf, uid, r.specific_target, hist_data)
        THEN /\ Continue(t, LoopHead(r, r.idx + 1))
             /\ UNCHANGED <<sharing_history, calls>>
        ELSE
        \/ /\ MayFail
           /\ Fault
           /\ sharing_history' =
                AppendHistory(sharing_history, HistoryEntry(uid, r.stype, FALSE, FALSE))
           /\ Continue(t, AfterNoContent(r))
        \/ /\ r.stype \notin TopicTypes
           /\ SendAndRecord(t, r)
        \/ /\ r.stype \in TopicTypes
           /\ \E topic \in Topics :
                Continue(t, [r EXCEPT !.pc = "upd_load", !.topic = topic])
           /\ UNCHANGED <<sharing_history, calls>>
  /\ UNCHANGED <<now, conf, state_file, last_share_time, is_terminated>>

Recipient(t) ==
  /\ t \in Runs
  /\ run[t].pc = "hist"
  /\ \E hist_data \in HistDatas(run[t].targets[run[t].idx]) : RecipientStep(t, hist_data)
  /\ UNCHANGED log

\* The tool task (_async_daily_share_task): the picture of the news (lines 268-279),
\* or generate and, when it has a text, _send (lines 284-372).
ToolShare ==
  /\ run["tool"].pc = "hist"
  /\ LET r == run["tool"]
     IN \/ /\ r.stype \notin TopicTypes
           /\ Continue("tool", IdleRun)
        \/ /\ r.stype \in TopicTypes
           /\ \E topic \in Topics :
                Continue("tool", [r EXCEPT !.pc = "upd_load", !.topic = topic])
  /\ UNCHANGED <<now, conf, state_file, sharing_history, last_share_time, is_terminated,
                 calls, log>>

\* _update_history: _load_state_safe returns, the topic is appended (lines 232-252).
UpdLoad(t) ==
  /\ run[t].pc = "upd_load"
  /\ LET r == run[t]
     IN run' = [run EXCEPT ![t] =
                  [r EXCEPT !.pc = "save_load",
                            !.st = WithTopic(LoadStateSafe(state_file), TopicKey(r.stype),
                                             r.topic, r.targets[r.idx],
                                             conf.topic_history_limit)]]
  /\ UNCHANGED <<now, conf, state_file, sharing_history, lock_holder, last_share_time,
                 is_terminated, calls, log>>

\* _save_state_safe: the current file is loaded and updated with the dict (191-192).
SaveLoad(t) ==
  /\ run[t].pc = "save_load"
  /\ LET r == run[t]
     IN run' = [run EXCEPT ![t] =
                  [r EXCEPT !.pc = "save_write",
                            !.st = MergedState(LoadStateSafe(state_file), r.st)]]
  /\ UNCHANGED <<now, conf, state_file, sharing_history, lock_holder, last_share_time,
                 is_terminated, calls, log>>

\* _save_state_safe has written the file (line 195); generate returns the text and
\* the message is sent.
SaveWrite(t) ==
  /\ run[t].pc = "save_write"
  /\ state_file' = run[t].st
  /\ IF t \in Runs
     THEN SendAndRecord(t, run[t])
     ELSE /\ Continue(t, IdleRun)
          /\ UNCHANGED <<sharing_history, calls>>
  /\ UNCHANGED <<now, conf, last_share_time, is_terminated, log>>

\* The history file is written and asyncio.sleep(2) returns: the next recipient.
Sleep(t) ==
  /\ run[t].pc = "sleep"
  /\ Continue(t, LoopHead(run[t], run[t].idx + 1))
  /\ UNCHANGED <<now, conf, state_file, sharing_history, last_share_time, is_terminated,
                 calls, log>>

-----------------------------------------------------------------------------
(* The environment.                                                         *)

Tick ==
  /\ now + TickSeconds <= StartTime + MaxElapsed
  /\ now' = now + TickSeconds
  /\ UNCHANGED <<conf, state_file, sharing_history, lock_holder, last_share_time,
                 is_terminated, run, calls, log>>

\* terminate(): the flag is set, the scheduler is shut down and the tasks of _bg_tasks
\* (the cron task, the tool task) are cancelled; a write already handed to the
\* executor may still reach the file.
MutTerminateFlagOnly ==
  /\ ~is_terminated
  /\ is_terminated' = TRUE
  /\ UNCHANGED <<now, conf, state_file, sharing_history, lock_holder, last_share_time,
                 run, calls, log>>

Terminate ==
  /\ ~is_terminated
  /\ is_terminated' = TRUE
  /\ run' = [t \in Tasks |-> IF t \in {"cron", "tool"} THEN IdleRun ELSE run[t]]
  /\ lock_holder' = None
  /\ \E w \in {None} \cup {t \in {"cron", "tool"} : run[t].pc \in WritePcs} :
       state_file' = IF w = None THEN state_file ELSE run[w].st
  /\ UNCHANGED <<now, conf, sharing_history, last_share_time, calls, log>>

-----------------------------------------------------------------------------
(* The plugin with its concurrent triggers.                                 *)

SpecConfs ==
  [cron_random_delay : {1},
   sharing_type : {"auto"},
   sequences : {[p \in TimePeriods |-> <<>>]},
   group_share_strategy : {"cautious"},
   topic_history_limit : {50},
   groups : {<<"g1">>},
   users : {<<"u1">>}]

Init ==
  /\ now = StartTime
  /\ conf \in SpecConfs
  /\ state_file = EmptyDict
  /\ sharing_history = <<>>
  /\ lock_holder = None
  /\ last_share_time = NoTime
  /\ is_terminated = FALSE
  /\ run = [t \in Tasks |-> IdleRun]
  /\ calls = [k \in {"cron", "manual", "reset", "fault"} |-> 0]
  /\ log = [fired |-> NoTime, triggered |-> NoTime]

Next ==
  \/ CronFire
  \/ CronWake
  \/ CmdShare
  \/ ToolCall
  \/ CmdResetSeq
  \/ ToolShare
  \/ Tick
  \/ Terminate
  \/ \E t \in Tasks : DecideLoad(t)
  \/ \E t \in Tasks : DecideWrite(t)
  \/ \E t \in Tasks : Recipient(t)
  \/ \E t \in Tasks : UpdLoad(t)
  \/ \E t \in Tasks : SaveLoad(t)
  \/ \E t \in Tasks : SaveWrite(t)
  \/ \E t \in Tasks : Sleep(t)

Spec == Init /\ [][Next]_vars

-----------------------------------------------------------------------------
(* The sequence scheduler on its own: decisions one after another, between  *)
(* them the clock, the configuration and the reset command.                 *)

\* The hours the clock is read at, and the sequences a period can be configured with
\* (<<>>: not configured, the built-in sequence applies).
SeqHours == {8, 9, 13}
SeqPeriods == {PeriodOfHour(h) : h \in SeqHours}
SeqChoices == {<<>>, <<"mood">>, <<"greeting", "news", "mood">>}

SeqConfs ==
  [cron_random_delay : {0},
   sharing_type : {"auto", "mood"},
   sequences : {q \in [TimePeriods -> SeqChoices] :
                  \A p \in TimePeriods \ {"forenoon", "afternoon"} : q[p] = <<>>},
   group_share_strategy : {"cautious"},
   topic_history_limit : {50},
   groups : {<<"g1">>},
   users : {<<"u1">>}]

\* The state files a decision can find: none, or one left by earlier decisions
\* (under any earlier configuration) or by a reset.
SeqFiles ==
  {EmptyDict, ResetState} \cup
  {[k \in ScheduleKeys |->
      CASE k = "sequence_index" -> i
        [] k = "last_period" -> p
        [] k = "last_timestamp" -> 0
        [] k = "last_type" -> "mood"] : i \in 0..MaxStaleIndex, p \in SeqPeriods}

\* What is remembered of the decisions (not program state): the types returned since
\* the state was fresh (trace), the period they were made in, and of the last
\* rotation step the cursor it loaded, the sequence it used, the type it returned
\* and whether the period had changed.
NoTrace ==
  [fresh |-> FALSE, trace |-> <<>>, period |-> None, prior |-> 0, used |-> <<>>,
   last |-> None, changed |-> FALSE]

\* _decide_type_with_state(current_period), from the call to the return.
Decide ==
  /\ calls["decide"] < MaxDecisions
  /\ calls' = [calls EXCEPT !["decide"] = @ + 1]
  /\ IF ~UsesRotation(conf)
     THEN /\ log' = [log EXCEPT !.last = ToSharingType(conf.sharing_type)]
          /\ UNCHANGED state_file
     ELSE LET loaded == LoadState(state_file)
              saved == DecideState(loaded, CurrPeriod, conf, now)
              same == log.fresh /\ (log.trace = <<>> \/ log.period = CurrPeriod)
          IN /\ state_file' = saved
             /\ log' = [fresh |-> same,
                        trace |-> IF same THEN Append(log.trace, DecidedType(saved))
                                  ELSE <<>>,
                        period |-> IF same THEN CurrPeriod ELSE None,
                        prior |-> Get(loaded, "sequence_index", 0),
                        used |-> SequenceFor(conf, CurrPeriod),
                        last |-> DecidedType(saved),
                        changed |-> Get(loaded, "last_period", None) /= CurrPeriod]
  /\ UNCHANGED <<now, conf, sharing_history, lock_holder, last_share_time, is_terminated,
                 run>>

\* _cmd_reset_seq between two decisions.
ResetSeq ==
  /\ state_file' = ResetState
  /\ log' = [NoTrace EXCEPT !.fresh = TRUE]
  /\ UNCHANGED <<now, conf, sharing_history, lock_holder, last_share_time, is_terminated,
                 run, calls>>

\* The next decision is made at another hour.
ClockMoves ==
  /\ \E h \in SeqHours \ {Hour(now)} : now' = h * SecondsPerHour
  /\ UNCHANGED <<conf, state_file, sharing_history, lock_holder, last_share_time,
                 is_terminated, run, calls, log>>

\* The configuration is edited: the rotation seen so far no longer says anything
\* about one sequence.
Reconfigure ==
  /\ \E c \in SeqConfs \ {conf} : conf' = c
  /\ log' = [log EXCEPT !.fresh = FALSE, !.trace = <<>>, !.period = None]
  /\ UNCHANGED <<now, state_file, sharing_history, lock_holder, last_share_time,
                 is_terminated, run, calls>>

\* _cmd_view_seq: the sequence listed for the period and the positions marked in it.
\* Its config_key_map has no entry for forenoon, so basic_conf.get(None, []) is
\* empty there; the index is the stored one, and a position is marked when it
\* equals the index.
ViewSeq(c, file, period) ==
  LET configured == IF period = "forenoon" THEN <<>> ELSE c.sequences[period]
      seq == IF configured /= <<>> THEN configured ELSE SHARING_TYPE_SEQUENCES[period]
      idx == Get(LoadState(file), "sequence_index", 0)
  IN [seq |-> seq, marked |-> {i \in 0..(Len(seq) - 1) : i = idx}]

InitSeq ==
  /\ now \in {h * SecondsPerHour : h \in SeqHours}
  /\ conf \in SeqConfs
  /\ state_file \in SeqFiles
  /\ sharing_history = <<>>
  /\ lock_holder = None
  /\ last_share_time = NoTime
  /\ is_terminated = FALSE
  /\ run = [t \in Tasks |-> IdleRun]
  /\ calls = [k \in {"decide"} |-> 0]
  /\ log = [NoTrace EXCEPT !.fresh = (LoadState(state_file) = ResetState)]

NextSeq ==
  \/ Decide
  \/ ResetSeq
  \/ ClockMoves
  \/ Reconfigure

SpecSeq == InitSeq /\ [][NextSeq]_vars

-----------------------------------------------------------------------------
(* The suppression policy in the recipient loop: runs under every strategy, *)
(* with what the policy saw and did for the last recipient kept in log.     *)

PolicyConfs ==
  [cron_random_delay : {0},
   sharing_type : {"auto"},
   sequences : {[p \in TimePeriods |-> <<>>]},
   group_share_strategy : {"cautious", "minimal", "active"},
   topic_history_limit : {50},
   groups : {<<"g1">>},
   users : {<<"u1">>}]

\* Nothing seen yet.
NoPolicyLog ==
  [fired |-> NoTime, triggered |-> NoTime, uid |-> NoTarget, broadcast |-> FALSE,
   hist_data |-> EmptyDict, checked |-> FALSE, result |-> TRUE, skipped |-> FALSE]

\* One recipient of a run, as Recipient; log keeps the recipient, the history data,
\* whether check_group_strategy was called and what it returned, and whether the
\* recipient was passed over (no generation, no failure, no history entry).
PolicyRecipient(t) ==
  /\ t \in Runs
  /\ run[t].pc = "hist"
  /\ LET r == run[t]
         uid == r.targets[r.idx]
     IN \E hist_data \in HistDatas(uid) :
          LET checked == /\ IsGroup(uid)
                         /\ "group_info" \in DOMAIN hist_data
                         /\ r.specific_target = NoTarget
          IN /\ RecipientStep(t, hist_data)
             /\ log' = [log EXCEPT
                          !.uid = uid,
                          !.broadcast = (r.specific_target = NoTarget),
                          !.hist_data = hist_data,
                          !.checked = checked,
                          !.result = IF checked
                                     THEN check_group_strategy(conf, hist_data["group_info"])
                                     ELSE TRUE,
                          !.skipped = /\ sharing_history' = sharing_history
                                      /\ calls' = calls
                                      /\ run'[t].pc \in {"hist", "idle"}]

InitPolicy ==
  /\ now = StartTime
  /\ conf \in PolicyConfs
  /\ state_file = EmptyDict
  /\ sharing_history = <<>>
  /\ lock_holder = None
  /\ last_share_time = NoTime
  /\ is_terminated = FALSE
  /\ run = [t \in Tasks |-> IdleRun]
  /\ calls = [k \in {"cron", "manual", "reset", "fault"} |-> 0]
  /\ log = NoPolicyLog

NextPolicy ==
  \/ CronFire
  \/ CmdShare
  \/ \E t \in Runs : DecideLoad(t)
  \/ \E t \in Runs : DecideWrite(t)
  \/ \E t \in Runs : PolicyRecipient(t)
  \/ \E t \in Runs : UpdLoad(t)
  \/ \E t \in Runs : SaveLoad(t)
  \/ \E t \in Runs : SaveWrite(t)
  \/ \E t \in Runs : Sleep(t)

SpecPolicy == InitPolicy /\ [][NextPolicy]_vars

-----------------------------------------------------------------------------
(* NewsService (src/core/news.py): the choice of a news source and the     *)
(* fetch with its single retry.  A weight is kept in hundredths; a call    *)
(* that raises has the name of the exception as its outcome.                *)

\* The keys of config.NEWS_SOURCE_MAP.
NEWS_SOURCE_MAP ==
  {"zhihu", "weibo", "quark", "bili", "xiaohongshu", "douyin", "toutiao", "baidu",
   "tencent"}

\* config.NEWS_TIME_PREFERENCES, in hundredths.
NEWS_TIME_PREFERENCES ==
  [p \in TimePeriods |->
     CASE p = "dawn" ->
            [zhihu |-> 30, bili |-> 20, douyin |-> 15, xiaohongshu |-> 10, weibo |-> 10,
             quark |-> 5, toutiao |-> 5, baidu |-> 5, tencent |-> 5]
       [] p = "morning" ->
            [xiaohongshu |-> 20, weibo |-> 20, quark |-> 15, toutiao |-> 10, baidu |-> 10,
             bili |-> 10, douyin |-> 10, tencent |-> 5, zhihu |-> 5]
       [] p = "forenoon" ->
            [weibo |-> 20, quark |-> 15, toutiao |-> 15, zhihu |-> 15, baidu |-> 10,
             tencent |-> 5, xiaohongshu |-> 10, bili |-> 10, douyin |-> 5]
       [] p = "afternoon" ->
            [douyin |-> 20, quark |-> 15, zhihu |-> 15, weibo |-> 10, bili |-> 10,
             baidu |-> 10, toutiao |-> 10, xiaohongshu |-> 10, tencent |-> 5]
       [] p = "evening" ->
            [bili |-> 20, quark |-> 15, weibo |-> 15, douyin |-> 15, tencent |-> 10,
             xiaohongshu |-> 10, zhihu |-> 10, baidu |-> 5, toutiao |-> 5]
       [] p = "night" ->
            [douyin |-> 25, bili |-> 20, weibo |-> 15, quark |-> 10, xiaohongshu |-> 10,
             baidu |-> 10, zhihu |-> 5, tencent |-> 5]
       [] p = "late_night" ->
            [xiaohongshu |-> 25, zhihu |-> 20, bili |-> 20, douyin |-> 15, weibo |-> 10,
             quark |-> 5, baidu |-> 5, tencent |-> 5, toutiao |-> 0]]

\* The default of prefs.get(s, 0.1), in hundredths.
MissingWeight == 10

\* The exceptions a selection can end in.
Raised == {"KeyError", "ValueError"}

\* NewsService._get_current_period
NewsPeriodOfHour(h) ==
  IF 0 <= h /\ h < 6 THEN "dawn"
  ELSE IF 6 <= h /\ h < 9 THEN "morning"
  ELSE IF 9 <= h /\ h < 12 THEN "forenoon"
  ELSE IF 12 <= h /\ h < 16 THEN "afternoon"
  ELSE IF 16 <= h /\ h < 19 THEN "evening"
  ELSE IF 19 <= h /\ h < 22 THEN "night"
  ELSE "late_night"

CurrNewsPeriod == NewsPeriodOfHour(Hour(now))

\* The elements of a list.
Elems(l) == {l[i] : i \in DOMAIN l}

\* [s for s in l if s in keys]
Filter(l, keys) == SelectSeq(l, LAMBDA s : s \in keys)

\* del d[k]
Remove(d, k) == [x \in DOMAIN d \ {k} |-> d[x]]

\* l.remove(x): the first occurrence goes.
RemoveFirst(l, x) ==
  LET i == CHOOSE j \in DOMAIN l : l[j] = x /\ \A k \in 1..(j - 1) : l[k] /= x
  IN SubSeq(l, 1, i - 1) \o SubSeq(l, i + 1, Len(l))

\* random.choice(l)
Choice(l) == Elems(l)

\* random.choices(l, weights)[0]: an element of positive weight; ValueError when the
\* weights add up to zero.
Choices(population, weight) ==
  IF \A s \in population : weight[s] = 0
  THEN {"ValueError"}
  ELSE {s \in population : weight[s] > 0}

\* NEWS_SOURCE_MAP[selected]['name'] in the log line that precedes the return.
Named(outcome) ==
  IF outcome \in Raised \/ outcome \in NEWS_SOURCE_MAP THEN outcome ELSE "KeyError"

\* prefs of _select_by_time after the exclusion.
PrefsWithout(period, excluded_source) ==
  LET table == NEWS_TIME_PREFERENCES[period]
  IN IF /\ excluded_source /= None
        /\ excluded_source \in DOMAIN table
        /\ Cardinality(DOMAIN table) > 1
     THEN Remove(table, excluded_source)
     ELSE table

\* valid of _select_by_time: the allow-list within prefs, and when nothing is left
\* the allow-list within the whole table of the period.
ValidByTime(c, period, excluded_source) ==
  LET allow == Get(c, "news_random_sources", <<>>)
      valid == Filter(allow, DOMAIN PrefsWithout(period, excluded_source))
  IN IF valid = <<>>
     THEN Filter(allow, DOMAIN NEWS_TIME_PREFERENCES[period])
     ELSE valid

\* The candidates _select_by_time draws from, once the exclusion and the allow-list
\* have been applied.
Survivors(c, period, excluded_source) ==
  IF Get(c, "news_random_sources", <<>>) /= <<>>
  THEN Elems(ValidByTime(c, period, excluded_source))
  ELSE DOMAIN PrefsWithout(period, excluded_source)

\* NewsService._select_by_time: the outcomes it can have.
select_by_time(c, period, excluded_source) ==
  LET prefs == PrefsWithout(period, excluded_source)
      allow == Get(c, "news_random_sources", <<>>)
      valid == ValidByTime(c, period, excluded_source)
      selected ==
        IF allow /= <<>>
        THEN IF valid /= <<>>
             THEN Choices(Elems(valid),
                          [s \in Elems(valid) |-> Get(prefs, s, MissingWeight)])
             ELSE Choice(allow)
        ELSE Choices(DOMAIN prefs, prefs)
  IN {Named(o) : o \in selected}

\* valid of the mode "config" after the exclusion.
ValidByConfig(c, excluded_source) ==
  LET listed == Filter(Get(c, "news_random_sources", <<"zhihu", "weibo">>), NEWS_SOURCE_MAP)
      valid == IF listed = <<>> THEN <<"zhihu">> ELSE listed
  IN IF excluded_source /= None /\ excluded_source \in Elems(valid) /\ Len(valid) > 1
     THEN RemoveFirst(valid, excluded_source)
     ELSE valid

\* NewsService.select_news_source: the outcomes it can have.
select_news_source(c, period, excluded_source) ==
  LET mode == Get(c, "news_random_mode", "config")
  IN CASE mode = "fixed" -> {Get(c, "news_api_source", "zhihu")}
       [] mode = "random" ->
            IF /\ excluded_source /= None
               /\ excluded_source \in NEWS_SOURCE_MAP
               /\ Cardinality(NEWS_SOURCE_MAP) > 1
            THEN NEWS_SOURCE_MAP \ {excluded_source}
            ELSE NEWS_SOURCE_MAP
       [] mode = "config" -> Choice(ValidByConfig(c, excluded_source))
       [] mode = "time_based" -> select_by_time(c, period, excluded_source)
       [] OTHER -> {"zhihu"}

-----------------------------------------------------------------------------
(* NewsService on its own: under every configuration of news_conf and in   *)
(* every period, selections with an exclusion label and calls of           *)
(* get_hot_news whose fetches succeed or fail.  conf is news_conf, run the *)
(* position of the one call of get_hot_news, calls the number of fetches   *)
(* of that call, log the last selection and the fetches of the call.       *)

\* The labels of the allow-lists: two of the source map, one of them with the weight
\* zero late at night and no weight at night, and one unknown to the source map.
AllowLabels == {"zhihu", "toutiao", "elsewhere"}

AllowLists == UNION {[1..n -> AllowLabels] : n \in 0..MaxAllow}

Exclusions == {None, "weibo"} \cup AllowLabels

NewsModes == {"fixed", "random", "config", "time_based"}

\* news_conf with and without the key news_random_sources.
NewsConfs ==
  LET base == [news_random_mode : NewsModes,
               news_api_source : {"zhihu", "elsewhere"},
               enable_news_api : BOOLEAN,
               nycnm_api_key : {"", "key"}]
  IN base \cup {Put(b, "news_random_sources", l) : b \in base, l \in AllowLists}

\* One hour of each period.
NewsHours == {3, 7, 10, 13, 17, 20, 23}

IdleNews == [pc |-> "idle", pri_source |-> None, back_source |-> None]

NoNewsLog ==
  [op |-> None, excluded |-> None, selected |-> None, fetched |-> <<>>,
   returned |-> None]

\* pool of get_hot_news.
Pool(c) ==
  IF Get(c, "news_random_mode", "config") \in {"config", "time_based"}
  THEN Elems(Filter(Get(c, "news_random_sources", <<"zhihu", "weibo">>), NEWS_SOURCE_MAP))
  ELSE NEWS_SOURCE_MAP

\* fallback_pool of get_hot_news.
MutPoolWithFailed(c, pri_source) == Pool(c)

FallbackPool(c, pri_source) == Pool(c) \ {pri_source}

\* What _fetch_news can return for a source: nothing for a source unknown to the map,
\* items or nothing (a status, a timeout, an unparsable body) for a known one.
FetchResults(source) == IF source \in NEWS_SOURCE_MAP THEN BOOLEAN ELSE {FALSE}

\* A call of select_news_source(excluded_source), between two calls of get_hot_news.
SelectNewsSource ==
  /\ run.pc = "idle"
  /\ \E excluded_source \in Exclusions :
       \E outcome \in select_news_source(conf, CurrNewsPeriod, excluded_source) :
         log' = [NoNewsLog EXCEPT !.op = "select", !.excluded = excluded_source,
                                  !.selected = outcome]
  /\ UNCHANGED <<now, conf, state_file, sharing_history, lock_holder, last_share_time,
                 is_terminated, run, calls>>

\* get_hot_news(specific_source) up to its first await.
GetHotNews ==
  /\ run.pc = "idle"
  /\ \E specific_source \in {None, "zhihu", "elsewhere"} :
       IF ~Get(conf, "enable_news_api", TRUE) \/ Get(conf, "nycnm_api_key", "") = ""
       THEN /\ run' = IdleNews
            /\ log' = [NoNewsLog EXCEPT !.op = "news", !.returned = "disabled"]
       ELSE \E pri_source \in
                 (IF specific_source /= None /\ specific_source \in NEWS_SOURCE_MAP
                  THEN {specific_source}
                  ELSE select_news_source(conf, CurrNewsPeriod, None)) :
              IF pri_source \in Raised
              THEN /\ run' = IdleNews
                   /\ log' = [NoNewsLog EXCEPT !.op = "news", !.returned = pri_source]
              ELSE /\ run' = [pc |-> "primary", pri_source |-> pri_source,
                              back_source |-> None]
                   /\ log' = [NoNewsLog EXCEPT !.op = "news"]
  /\ calls' = [calls EXCEPT !["fetch"] = 0]
  /\ UNCHANGED <<now, conf, state_file, sharing_history, lock_holder, last_share_time,
                 is_terminated>>

\* The fetch of the primary source completes; on failure the fallback source is drawn.
FetchPrimary ==
  /\ run.pc = "primary"
  /\ \E res \in FetchResults(run.pri_source) :
       LET fetched == Append(log.fetched, [source |-> run.pri_source, ok |-> res])
       IN IF res
          THEN /\ run' = IdleNews
               /\ log' = [log EXCEPT !.fetched = fetched, !.returned = run.pri_source]
          ELSE IF FallbackPool(conf, run.pri_source) = {}
               THEN /\ run' = IdleNews
                    /\ log' = [log EXCEPT !.fetched = fetched, !.returned = "nothing"]
               ELSE \E back_source \in FallbackPool(conf, run.pri_source) :
                      /\ run' = [run EXCEPT !.pc = "backup",
                                            !.back_source = back_source]
                      /\ log' = [log EXCEPT !.fetched = fetched]
  /\ calls' = [calls EXCEPT !["fetch"] = @ + 1]
  /\ UNCHANGED <<now, conf, state_file, sharing_history, lock_holder, last_share_time,
                 is_terminated>>

\* The fetch of the fallback source completes.
FetchBackup ==
  /\ run.pc = "backup"
  /\ \E res \in FetchResults(run.back_source) :
       /\ run' = IdleNews
       /\ log' = [log EXCEPT
                    !.fetched = Append(@, [source |-> run.back_source, ok |-> res]),
                    !.returned = IF res THEN run.back_source ELSE "nothing"]
  /\ calls' = [calls EXCEPT !["fetch"] = @ + 1]
  /\ UNCHANGED <<now, conf, state_file, sharing_history, lock_holder, last_share_time,
                 is_terminated>>

InitNews ==
  /\ now \in {h * SecondsPerHour : h \in NewsHours}
  /\ conf \in NewsConfs
  /\ state_file = EmptyDict
  /\ sharing_history = <<>>
  /\ lock_holder = None
  /\ last_share_time = NoTime
  /\ is_terminated = FALSE
  /\ run = IdleNews
  /\ calls = [k \in {"fetch"} |-> 0]
  /\ log = NoNewsLog

NextNews ==
  \/ SelectNewsSource
  \/ GetHotNews
  \/ FetchPrimary
  \/ FetchBackup

SpecNews == InitNews /\ [][NextNews]_vars

-----------------------------------------------------------------------------
(* The topic history of ContentService on its own: one caller records       *)
(* topics one after another (each _update_history is awaited before the     *)
(* next generation starts), under a small topic_history_limit.              *)

TopicConfs ==
  [cron_random_delay : {0},
   sharing_type : {"auto"},
   sequences : {[p \in TimePeriods |-> <<>>]},
   group_share_strategy : {"cautious"},
   topic_history_limit : {1, 2},
   groups : {<<"g1">>},
   users : {<<"u1">>}]

LedgerTopics == {<<"k">>, <<"m">>}

\* _gen_knowledge or _gen_rec: the used topics are read and put into the prompt, the
\* model answers with a topic of its choosing (nothing compares the answer with the
\* list), the text is generated and _update_history is called for the target.
RecordTopic ==
  /\ run["tool"].pc = "idle"
  /\ calls["topics"] < MaxTopics
  /\ calls' = [calls EXCEPT !["topics"] = @ + 1]
  /\ \E stype \in TopicTypes, topic \in LedgerTopics, target_id \in SessionTargets :
       run' = [run EXCEPT !["tool"] =
                 [IdleRun EXCEPT !.pc = "upd_load", !.force_type = stype, !.stype = stype,
                                 !.specific_target = target_id,
                                 !.targets = <<target_id>>, !.idx = 1,
                                 !.topic = topic, !.period = CurrPeriod]]
  /\ UNCHANGED <<now, conf, state_file, sharing_history, lock_holder, last_share_time,
                 is_terminated, log>>

InitTopics ==
  /\ now = StartTime
  /\ conf \in TopicConfs
  /\ state_file = EmptyDict
  /\ sharing_history = <<>>
  /\ lock_holder = None
  /\ last_share_time = NoTime
  /\ is_terminated = FALSE
  /\ run = [t \in Tasks |-> IdleRun]
  /\ calls = [k \in {"topics"} |-> 0]
  /\ log = [fired |-> NoTime, triggered |-> NoTime]

NextTopics ==
  \/ RecordTopic
  \/ UpdLoad("tool")
  \/ SaveLoad("tool")
  \/ SaveWrite("tool")

SpecTopics == InitTopics /\ [][NextTopics]_vars

-----------------------------------------------------------------------------
(* DatabaseManager (src/core/db.py) on its own.  Every operation runs in a  *)
(* thread of the executor with a connection of its own: what it reads of    *)
(* the clock and what it commits are two steps, and a commit is atomic.     *)
(* sharing_history holds the tables topic_history and sent_history of       *)
(* data.db, a created_at is the clock in seconds, run the position of the   *)
(* insert and of the purge in flight, log the last query or the last purge, *)
(* calls the operations so far, the rows committed while the purge in       *)
(* flight was running ("during") and since the last purge ("since").        *)

SecondsPerDay == HoursPerDay * SecondsPerHour

DbTargets == {"u1", "g1"}
DbCategories == {"knowledge", "rec"}
DbKeys == {"a", "b"}
DaysLimits == {1, 2}

EmptyTables == [topic_history |-> <<>>, sent_history |-> <<>>]

IdleDb ==
  [record |-> [pc |-> "idle", row |-> EmptyDict],
   clean |-> [pc |-> "idle", days_limit |-> 0, at |-> NoTime, cutoff |-> NoTime]]

NoDbLog ==
  [op |-> None, target_id |-> None, category |-> None, days_limit |-> 0,
   result |-> <<>>, cutoff |-> NoTime, deleted |-> 0, kept_new |-> 0, again |-> FALSE]

\* datetime.now() - timedelta(days=days_limit), to the second.
MutCutoffNow(t, days_limit) == t

DateLimit(t, days_limit) == t - days_limit * SecondsPerDay

\* SELECT content_key FROM topic_history
\* WHERE target_id = ? AND category = ? AND created_at > ?
SelectUsedTopics(rows, target_id, category, date_limit) ==
  LET hit == SelectSeq(rows, LAMBDA r : /\ r.target_id = target_id
                                        /\ r.category = category
                                        /\ r.created_at > date_limit)
  IN [i \in DOMAIN hit |-> hit[i].content_key]

\* DELETE FROM <table> WHERE created_at < ?
DeleteExpired(rows, cutoff_date) == SelectSeq(rows, LAMBDA r : ~(r.created_at < cutoff_date))

\* The two DELETE statements of _sync_clean_expired_data and their commit.
CleanExpired(tables, cutoff_date) ==
  [topic_history |-> DeleteExpired(tables.topic_history, cutoff_date),
   sent_history |-> DeleteExpired(tables.sent_history, cutoff_date)]

\* _sync_record_topic reads the clock (line 148).
RecordBegin ==
  /\ run.record.pc = "idle"
  /\ calls["record"] < MaxRecords
  /\ calls' = [calls EXCEPT !["record"] = @ + 1]
  /\ \E target_id \in DbTargets, category \in DbCategories, content_key \in DbKeys :
       run' = [run EXCEPT !.record =
                 [pc |-> "insert",
                  row |-> [target_id |-> target_id, category |-> category,
                           content_key |-> content_key, created_at |-> now]]]
  /\ UNCHANGED <<now, conf, state_file, sharing_history, lock_holder, last_share_time,
                 is_terminated, log>>

\* _sync_record_topic inserts the row and commits (lines 150-155).
RecordCommit ==
  /\ run.record.pc = "insert"
  /\ sharing_history' = [sharing_history EXCEPT !.topic_history = Append(@, run.record.row)]
  /\ run' = [run EXCEPT !.record = IdleDb.record]
  /\ calls' = [calls EXCEPT !["during"] = IF run.clean.pc = "delete" THEN @ + 1 ELSE @,
                            !["since"] = 1]
  /\ UNCHANGED <<now, conf, state_file, lock_holder, last_share_time, is_terminated, log>>

\* add_sent_history: a row of sent_history.
AddSentHistory ==
  /\ calls["sent"] < MaxSent
  /\ calls' = [calls EXCEPT !["sent"] = @ + 1, !["since"] = 1]
  /\ sharing_history' = [sharing_history EXCEPT
                           !.sent_history = Append(@, [created_at |-> now])]
  /\ UNCHANGED <<now, conf, state_file, lock_holder, last_share_time, is_terminated, run,
                 log>>

\* get_used_topics(target_id, category, days_limit)
GetUsedTopics ==
  /\ \E target_id \in DbTargets, category \in DbCategories, days_limit \in DaysLimits :
       log' = [NoDbLog EXCEPT
                 !.op = "query", !.target_id = target_id, !.category = category,
                 !.days_limit = days_limit,
                 !.result = SelectUsedTopics(sharing_history.topic_history, target_id,
                                             category, DateLimit(now, days_limit))]
  /\ UNCHANGED <<now, conf, state_file, sharing_history, lock_holder, last_share_time,
                 is_terminated, run, calls>>

\* _sync_clean_expired_data(days_limit) reads the clock (line 187).
CleanBegin ==
  /\ run.clean.pc = "idle"
  /\ \E days_limit \in DaysLimits :
       run' = [run EXCEPT !.clean = [pc |-> "delete", days_limit |-> days_limit,
                                     at |-> now,
                                     cutoff |-> DateLimit(now, days_limit)]]
  /\ calls' = [calls EXCEPT !["during"] = 0]
  /\ UNCHANGED <<now, conf, state_file, sharing_history, lock_holder, last_share_time,
                 is_terminated, log>>

\* The purge deletes from both tables and commits (lines 190-201).  log keeps the
\* cutoff, the number of rows deleted from topic_history, the number of rows kept
\* among those inserted while the purge was running, and whether the purge repeats
\* the last one: the same cutoff and nothing committed in between.
CleanCommit ==
  /\ run.clean.pc = "delete"
  /\ sharing_history' = CleanExpired(sharing_history, run.clean.cutoff)
  /\ run' = [run EXCEPT !.clean = IdleDb.clean]
  /\ calls' = [calls EXCEPT !["since"] = 0]
  /\ LET rows == sharing_history.topic_history
         new == SubSeq(rows, Len(rows) - calls["during"] + 1, Len(rows))
     IN log' = [NoDbLog EXCEPT
                  !.op = "purge", !.cutoff = run.clean.cutoff,
                  !.deleted = Len(rows) - Len(DeleteExpired(rows, run.clean.cutoff)),
                  !.kept_new = Len(DeleteExpired(new, run.clean.cutoff)),
                  !.again = /\ log.op = "purge"
                            /\ log.cutoff = run.clean.cutoff
                            /\ calls["since"] = 0]
  /\ UNCHANGED <<now, conf, state_file, lock_holder, last_share_time, is_terminated>>

\* A day passes.
TickDay ==
  /\ calls["days"] < MaxDays
  /\ calls' = [calls EXCEPT !["days"] = @ + 1]
  /\ now' = now + SecondsPerDay
  /\ UNCHANGED <<conf, state_file, sharing_history, lock_holder, last_share_time,
                 is_terminated, run, log>>

InitDb ==
  /\ now = StartTime
  /\ conf = EmptyDict
  /\ state_file = EmptyDict
  /\ sharing_history = EmptyTables
  /\ lock_holder = None
  /\ last_share_time = NoTime
  /\ is_terminated = FALSE
  /\ run = IdleDb
  /\ calls = [k \in {"record", "sent", "days", "during", "since"} |-> 0]
  /\ log = NoDbLog

NextDb ==
  \/ RecordBegin
  \/ RecordCommit
  \/ AddSentHistory
  \/ GetUsedTopics
  \/ CleanBegin
  \/ CleanCommit
  \/ TickDay

SpecDb == InitDb /\ [][NextDb]_vars

-----------------------------------------------------------------------------
(* The cron run when the accesses to the state file can fail and the        *)
(* process can restart.  (Spec and SpecSeq take the accesses to succeed.)   *)

\* _load_state, lines 767-773: the default state when the read raises.
LoadResult(file, ok) == IF ok THEN LoadState(file) ELSE ResetState

\* _save_state, lines 775-779: the file is left as it was when the write raises.
MutSaveDropped(file, st, ok) == file

SaveResult(file, st, ok) == IF ok THEN st ELSE file

\* Lines 817-820, 546-574: _save_state returns whether or not the write raised
\* (`except Exception: pass`), the decision returns the type, the run goes on.
MutSaveFailureAborts(r, ok) ==
  IF ok THEN StartLoop([r EXCEPT !.stype = DecidedType(r.st), !.st = EmptyDict])
  ELSE IdleRun

Decided(r, ok) == StartLoop([r EXCEPT !.stype = DecidedType(r.st), !.st = EmptyDict])

\* The period and the cursor of a schedule state.
CursorOf(st) == [period |-> st["last_period"], index |-> st["sequence_index"]]
NoCursor == [period |-> None, index |-> 0]

PersistConfs ==
  [cron_random_delay : {0},
   sharing_type : {"auto"},
   sequences : {q \in [TimePeriods -> SeqChoices] :
                  /\ q["forenoon"] /= <<"mood">>
                  /\ \A p \in TimePeriods \ {"forenoon"} : q[p] = <<>>},
   group_share_strategy : {"cautious"},
   topic_history_limit : {50},
   groups : {<<"g1">>},
   users : {<<>>}]

\* The state file the process starts with: none, or one left by a decision of the
\* forenoon.
PersistFiles ==
  {EmptyDict,
   [k \in ScheduleKeys |->
      CASE k = "sequence_index" -> 1
        [] k = "last_period" -> "forenoon"
        [] k = "last_timestamp" -> 0
        [] k = "last_type" -> "news"]}

\* What is remembered of the decisions (not program state): what the last _load_state
\* returned and whether it and the last _save_state went well, the cursor last
\* written by a decision, whether the process restarted since, and whether the last
\* load came after such a restart in the period of that cursor.
NoPersistLog ==
  [fired |-> NoTime, triggered |-> NoTime, loaded |-> EmptyDict, load_ok |-> TRUE,
   save_ok |-> TRUE, persisted |-> NoCursor, restarted |-> FALSE, resumed |-> FALSE]

\* DecideLoad, with a read that can raise.
DecideLoadOutcome(t) ==
  /\ run[t].pc = "decide_load"
  /\ \E ok \in BOOLEAN :
       LET r == run[t]
           loaded == LoadResult(state_file, ok)
       IN /\ run' = [run EXCEPT ![t] =
                       [r EXCEPT !.pc = "decide_write",
                                 !.st = DecideState(loaded, r.period, conf, now)]]
          /\ log' = [log EXCEPT !.loaded = loaded, !.load_ok = ok,
                                !.resumed = /\ ok
                                            /\ log.restarted
                                            /\ log.persisted.period = r.period]
  /\ UNCHANGED <<now, conf, state_file, sharing_history, lock_holder, last_share_time,
                 is_terminated, calls>>

\* DecideWrite, with a write that can raise.
DecideWriteOutcome(t) ==
  /\ run[t].pc = "decide_write"
  /\ calls' = [calls EXCEPT !["decide"] = @ + 1]
  /\ \E ok \in BOOLEAN :
       /\ state_file' = SaveResult(state_file, run[t].st, ok)
       /\ Continue(t, Decided(run[t], ok))
       /\ log' = [log EXCEPT !.save_ok = ok,
                             !.persisted = IF ok THEN CursorOf(run[t].st) ELSE @,
                             !.restarted = IF ok THEN FALSE ELSE @]
  /\ UNCHANGED <<now, conf, sharing_history, last_share_time, is_terminated>>

\* The process is stopped and started again (__init__, initialize): the tasks, the
\* lock and the debounce time are gone, the files stay; a write that was with the
\* executor may or may not have reached the file.
Restart ==
  /\ calls["restart"] < MaxRestarts
  /\ calls' = [calls EXCEPT !["restart"] = @ + 1]
  /\ run' = [t \in Tasks |-> IdleRun]
  /\ lock_holder' = None
  /\ last_share_time' = NoTime
  /\ \E w \in {None} \cup {t \in Tasks : run[t].pc \in WritePcs} :
       /\ state_file' = IF w = None THEN state_file ELSE run[w].st
       /\ log' = [log EXCEPT !.restarted = TRUE,
                             !.persisted = IF w /= None /\ run[w].pc = "decide_write"
                                           THEN CursorOf(run[w].st) ELSE @]
  /\ UNCHANGED <<now, conf, sharing_history, is_terminated>>

\* An hour goes by.
HourPasses ==
  /\ Hour(now) < 9 + MaxHours
  /\ now' = now + SecondsPerHour
  /\ UNCHANGED <<conf, state_file, sharing_history, lock_holder, last_share_time,
                 is_terminated, run, calls, log>>

InitPersist ==
  /\ now = 9 * SecondsPerHour
  /\ conf \in PersistConfs
  /\ state_file \in PersistFiles
  /\ sharing_history = <<>>
  /\ lock_holder = None
  /\ last_share_time = NoTime
  /\ is_terminated = FALSE
  /\ run = [t \in Tasks |-> IdleRun]
  /\ calls = [k \in {"cron", "fault", "decide", "restart"} |-> 0]
  /\ log = NoPersistLog

NextPersist ==
  \/ CronFire
  \/ DecideLoadOutcome("cron")
  \/ DecideWriteOutcome("cron")
  \/ Recipient("cron")
  \/ UpdLoad("cron")
  \/ SaveLoad("cron")
  \/ SaveWrite("cron")
  \/ Sleep("cron")
  \/ Restart
  \/ HourPasses

SpecPersist == InitPersist /\ [][NextPersist]_vars

-----------------------------------------------------------------------------
(* ContextService._analyze_group_chat.  A message is its "timestamp": the   *)
(* epoch second its ISO string stands for, or NoTime for a string that      *)
(* fromisoformat rejects.  Role, sender and content do not bear on the      *)
(* intensity, the count and is_discussing.                                  *)

\* Lines 622-626: the parsed timestamp, 0 when the string does not parse.
Timestamp(ts_str) == IF ts_str = NoTime THEN 0 ELSE ts_str

\* Line 616: messages[-(check_count * 2):] when the list is longer than that (the
\* whole list when check_count is 0: a slice from -0).
Consideration(messages, check_count) ==
  IF Len(messages) > check_count * 2 /\ check_count > 0
  THEN KeepLast(messages, check_count * 2)
  ELSE messages

\* Lines 620-632: the messages counted, those at or after the cutoff.
ActiveCount(msgs, cutoff_time) ==
  Cardinality({i \in DOMAIN msgs : Timestamp(msgs[i]) >= cutoff_time})

RECURSIVE LastMsgTime(_)
\* Lines 618, 628: the greatest timestamp seen, 0 at least.
LastMsgTime(msgs) ==
  IF msgs = <<>> THEN 0
  ELSE LET rest == LastMsgTime(Tail(msgs))
           ts == Timestamp(Head(msgs))
       IN IF ts > rest THEN ts ELSE rest

\* Lines 649-658: check_count * 0.5 and check_count * 0.16, in hundredths.
Intensity(count, check_count) ==
  IF 100 * count > 50 * check_count THEN "high"
  ELSE IF 100 * count > 16 * check_count THEN "medium"
  ELSE "low"

\* Lines 661-663.
IsDiscussing(last_msg_time, t) ==
  last_msg_time > 0 /\ t - last_msg_time < DiscussingSeconds

\* Lines 598-671: the snapshot, {} for no messages.
analyze_group_chat(messages, check_count, t) ==
  IF messages = <<>> THEN EmptyDict
  ELSE LET consideration_msgs == Consideration(messages, check_count)
           count == ActiveCount(consideration_msgs, t - ActiveWindowSeconds)
       IN [k \in {"chat_intensity", "message_count", "is_discussing"} |->
             CASE k = "chat_intensity" -> Intensity(count, check_count)
               [] k = "message_count" -> count
               [] k = "is_discussing" ->
                    IsDiscussing(LastMsgTime(consideration_msgs), t)]

\* How old the messages of the model are, in seconds, and the lists of them
\* (get_history_data hands over the list in the order the adapter returned it when
\* enable_deep_history is off, and gives a message without "time" the current time).
Ages == {0, DiscussingSeconds - 1, DiscussingSeconds, ActiveWindowSeconds,
         ActiveWindowSeconds + 1}
MessageLists(t) ==
  UNION {[1..n -> {t - a : a \in Ages} \cup {NoTime}] : n \in 0..MaxMessages}

\* Nothing analysed yet.
NoSnapshot == [done |-> FALSE, group_info |-> EmptyDict]

\* _analyze_group_chat(messages) is called.
Analyze ==
  /\ ~log.done
  /\ log' = [done |-> TRUE,
             group_info |-> analyze_group_chat(run.messages,
                                               conf.group_intensity_check_count, now)]
  /\ UNCHANGED <<now, conf, state_file, sharing_history, lock_holder, last_share_time,
                 is_terminated, run, calls>>

InitChat ==
  /\ now = StartTime
  /\ \E check_count \in 0..MaxCheckCount :
       conf = [group_intensity_check_count |-> check_count]
  /\ \E messages \in MessageLists(now) : run = [messages |-> messages]
  /\ state_file = EmptyDict
  /\ sharing_history = <<>>
  /\ lock_holder = None
  /\ last_share_time = NoTime
  /\ is_terminated = FALSE
  /\ calls = EmptyDict
  /\ log = NoSnapshot

NextChat == Analyze

SpecChat == InitChat /\ [][NextChat]_vars

-----------------------------------------------------------------------------
(* The two period classifiers on their own: the clock is read at some       *)
(* second of some hour of the day and classified by both.                   *)

\* The seconds of an hour the clock is read at: the first, one inside, the last.
SecondsIntoHour == {0, SecondsPerHour \div 2, SecondsPerHour - 1}

\* Nothing classified yet.
NoPeriods == [done |-> FALSE, period |-> None, news_period |-> None]

\* _get_curr_period() and NewsService._get_current_period() at the same time.
Classify ==
  /\ ~log.done
  /\ log' = [done |-> TRUE, period |-> CurrPeriod, news_period |-> CurrNewsPeriod]
  /\ UNCHANGED <<now, conf, state_file, sharing_history, lock_holder, last_share_time,
                 is_terminated, run, calls>>

InitClock ==
  /\ now \in {h * SecondsPerHour + sec : h \in 0..(HoursPerDay - 1), sec \in SecondsIntoHour}
  /\ conf = EmptyDict
  /\ state_file = EmptyDict
  /\ sharing_history = <<>>
  /\ lock_holder = None
  /\ last_share_time = NoTime
  /\ is_terminated = FALSE
  /\ run = [t \in Tasks |-> IdleRun]
  /\ calls = EmptyDict
  /\ log = NoPeriods

NextClock == Classify

SpecClock == InitClock /\ [][NextClock]_vars

-----------------------------------------------------------------------------
(* _call_llm_wrapper: one call, its attempts and what they come back with.  *)

\* What one awaited llm_generate can come back with: a text, nothing usable (no
\* response, no completion_text, blank text), asyncio.TimeoutError, an exception,
\* an exception naming blocked content, an exception naming 401.
LlmOutcomes == {"text", "empty", "timeout", "error", "blocked", "unauthorized"}

\* The wrapper's locals: where it is, the loop variable, the value returned.
IdleCall == [pc |-> "idle", attempt |-> 0, result |-> None]

Returned(r, result) == [r EXCEPT !.pc = "done", !.result = result]

\* Lines 410-411, 447-448: the head of `for attempt in range(max_retries + 1)`.
AttemptHead(r, attempt, max_retries) ==
  IF attempt > max_retries \/ is_terminated THEN Returned(r, None)
  ELSE [r EXCEPT !.pc = "attempt", !.attempt = attempt]

\* Lines 412-445: what the wrapper does with the outcome of an attempt.
MutRetryWhileEmpty(r, outcome, max_retries) ==
  CASE outcome = "text" -> Returned(r, "text")
    [] outcome = "empty" -> AttemptHead(r, r.attempt, max_retries)
    [] outcome \in {"timeout", "error"} ->
         IF r.attempt < max_retries THEN [r EXCEPT !.pc = "backoff"]
         ELSE AttemptHead(r, r.attempt + 1, max_retries)
    [] outcome \in {"blocked", "unauthorized"} -> Returned(r, None)

AfterAttempt(r, outcome, max_retries) ==
  CASE outcome = "text" -> Returned(r, "text")
    [] outcome = "empty" -> AttemptHead(r, r.attempt + 1, max_retries)
    [] outcome \in {"timeout", "error"} ->
         IF r.attempt < max_retries THEN [r EXCEPT !.pc = "backoff"]
         ELSE AttemptHead(r, r.attempt + 1, max_retries)
    [] outcome \in {"blocked", "unauthorized"} -> Returned(r, None)

\* The wrapper is called: lines 384-411.
CallLlm ==
  /\ run.pc = "idle"
  /\ run' = IF is_terminated THEN Returned(run, None)
            ELSE AttemptHead(run, 0, conf.max_retries)
  /\ UNCHANGED <<now, conf, state_file, sharing_history, lock_holder, last_share_time,
                 is_terminated, calls, log>>

\* asyncio.wait_for(llm_generate(...)) comes back.
LlmAttempt ==
  /\ run.pc = "attempt"
  /\ calls' = [calls EXCEPT !["attempt"] = @ + 1]
  /\ \E outcome \in LlmOutcomes :
       /\ run' = AfterAttempt(run, outcome, conf.max_retries)
       /\ log' = Append(log, outcome)
  /\ UNCHANGED <<now, conf, state_file, sharing_history, lock_holder, last_share_time,
                 is_terminated>>

\* asyncio.sleep(2) returns, `continue`.
Backoff ==
  /\ run.pc = "backoff"
  /\ run' = AttemptHead(run, run.attempt + 1, conf.max_retries)
  /\ UNCHANGED <<now, conf, state_file, sharing_history, lock_holder, last_share_time,
                 is_terminated, calls, log>>

\* terminate() while the wrapper is suspended.
LlmTerminate ==
  /\ ~is_terminated
  /\ run.pc /= "done"
  /\ is_terminated' = TRUE
  /\ UNCHANGED <<now, conf, state_file, sharing_history, lock_holder, last_share_time,
                 run, calls, log>>

InitLlm ==
  /\ now = StartTime
  /\ \E max_retries \in 0..MaxRetries : conf = [max_retries |-> max_retries]
  /\ state_file = EmptyDict
  /\ sharing_history = <<>>
  /\ lock_holder = None
  /\ last_share_time = NoTime
  /\ is_terminated = FALSE
  /\ run = IdleCall
  /\ calls = [k \in {"attempt"} |-> 0]
  /\ log = <<>>

NextLlm ==
  \/ CallLlm
  \/ LlmAttempt
  \/ Backoff
  \/ LlmTerminate

SpecLlm == InitLlm /\ [][NextLlm]_vars

-----------------------------------------------------------------------------
(* The cron job on its own, with the commands that switch it on and off.    *)
(* The scheduler holds the job while enable_auto_sharing is set (lines 156, *)
(* 954-959, 965-967).                                                       *)

CronConfs ==
  [cron_random_delay : {1},
   sharing_type : {"auto"},
   sequences : {[p \in TimePeriods |->
                   IF p = "forenoon" THEN <<"knowledge", "news">> ELSE <<>>]},
   group_share_strategy : {"cautious"},
   topic_history_limit : {50},
   groups : {<<"g1">>},
   users : {<<"u1">>},
   enable_auto_sharing : {TRUE}]

\* The scheduler fires the job it holds.
ScheduledFire ==
  /\ conf.enable_auto_sharing
  /\ CronFire

\* _cmd_enable: the flag is set and saved, the job is set up.
CmdEnable ==
  /\ conf' = [conf EXCEPT !.enable_auto_sharing = TRUE]
  /\ UNCHANGED <<now, state_file, sharing_history, lock_holder, last_share_time,
                 is_terminated, run, calls, log>>

\* _cmd_disable: the flag is cleared and saved, the jobs are removed from the
\* scheduler.  The task of a job that has fired is not in the scheduler any more
\* and is left as it is.
CmdDisable ==
  /\ conf' = [conf EXCEPT !.enable_auto_sharing = FALSE]
  /\ UNCHANGED <<now, state_file, sharing_history, lock_holder, last_share_time,
                 is_terminated, run, calls, log>>

\* _execute_share raises outside the recipient loop: the type is decided and saved,
\* then get_life_context or get_hot_news raises (lines 549-552).  The exception
\* leaves `async with self._lock` and the task ends.
MutLockKeptOnRaise(t) ==
  /\ run[t].pc = "decide_write"
  /\ MayFail
  /\ Fault
  /\ state_file' = run[t].st
  /\ run' = [run EXCEPT ![t] = IdleRun]
  /\ UNCHANGED <<now, conf, sharing_history, lock_holder, last_share_time, is_terminated,
                 log>>

ExecuteRaises(t) ==
  /\ run[t].pc = "decide_write"
  /\ MayFail
  /\ Fault
  /\ state_file' = run[t].st
  /\ Continue(t, IdleRun)
  /\ UNCHANGED <<now, conf, sharing_history, last_share_time, is_terminated, log>>

InitCron ==
  /\ now = StartTime
  /\ conf \in CronConfs
  /\ state_file = EmptyDict
  /\ sharing_history = <<>>
  /\ lock_holder = None
  /\ last_share_time = NoTime
  /\ is_terminated = FALSE
  /\ run = [t \in Tasks |-> IdleRun]
  /\ calls = [k \in {"cron", "manual", "reset", "fault"} |-> 0]
  /\ log = [fired |-> NoTime, triggered |-> NoTime]

\* The steps of the cron run between its suspensions.
CronRunStep ==
  \/ DecideLoad("cron")
  \/ DecideWrite("cron")
  \/ ExecuteRaises("cron")
  \/ Recipient("cron")
  \/ UpdLoad("cron")
  \/ SaveLoad("cron")
  \/ SaveWrite("cron")
  \/ Sleep("cron")

NextCron ==
  \/ ScheduledFire
  \/ CronWake
  \/ CmdEnable
  \/ CmdDisable
  \/ Tick
  \/ CronRunStep

\* Every collaborator call returns and the event loop resumes the run: a run that
\* can take a step takes one.
SpecCron == InitCron /\ [][NextCron]_vars /\ WF_vars(CronRunStep)

-----------------------------------------------------------------------------
(* _send: the messages handed to context.send_message for one recipient.    *)
(* A text is a sequence of words, an emotion tag being one word; a message  *)
(* is the set of the kinds of its components.                               *)

EmotionTags == {"$$happy$$", "$$EMO:sad$$"}
IsWord(w) == w \notin EmotionTags

\* Line 673: the tags are removed and the text is stripped.
CleanText(text) == SelectSeq(text, IsWord)

\* Lines 669-722: the messages _send sends, in order, when no send raises.
SendChain(c, text, img_path, audio_path, video_url) ==
  LET should_send_text == ~(audio_path /\ c.prefer_audio_only)
      merge == img_path /\ ~video_url /\ ~c.separate_text_and_image /\ ~audio_path
      text_chain == IF should_send_text /\ CleanText(text) /= <<>>
                    THEN <<IF merge THEN {"text", "image"} ELSE {"text"}>>
                    ELSE <<>>
      audio_chain == IF audio_path THEN <<{"audio"}>> ELSE <<>>
      visual == IF video_url THEN <<{"video"}>>
                ELSE IF img_path /\ (c.separate_text_and_image \/ audio_path)
                     THEN <<{"image"}>>
                     ELSE <<>>
  IN text_chain \o audio_chain \o visual

\* The texts generated, and what _send can be called with.
SendTexts == {<<"hello">>, <<"$$happy$$", "hello">>, <<"$$EMO:sad$$">>}
SendConfs == [separate_text_and_image : BOOLEAN, prefer_audio_only : BOOLEAN]
SendArgs == [text : SendTexts, img_path : BOOLEAN, audio_path : BOOLEAN,
             video_url : BOOLEAN]

\* Nothing sent yet.
NoSends == [done |-> FALSE, sent |-> <<>>, failed |-> FALSE]

\* _send(uid, text, img_path, audio_path, video_url): it returns at once when the
\* plugin is terminated; a send_message that raises ends it (lines 726-727), the
\* messages before it having been sent.
SendMessages ==
  /\ ~log.done
  /\ LET chain == IF is_terminated THEN <<>>
                  ELSE SendChain(conf, run.text, run.img_path, run.audio_path,
                                 run.video_url)
     IN \E n \in 0..Len(chain) :
          log' = [done |-> TRUE, sent |-> SubSeq(chain, 1, n), failed |-> n < Len(chain)]
  /\ UNCHANGED <<now, conf, state_file, sharing_history, lock_holder, last_share_time,
                 is_terminated, run, calls>>

InitSend ==
  /\ now = StartTime
  /\ conf \in SendConfs
  /\ run \in SendArgs
  /\ is_terminated \in BOOLEAN
  /\ state_file = EmptyDict
  /\ sharing_history = <<>>
  /\ lock_holder = None
  /\ last_share_time = NoTime
  /\ calls = EmptyDict
  /\ log = NoSends

NextSend == SendMessages

SpecSend == InitSend /\ [][NextSend]_vars

-----------------------------------------------------------------------------
(* The sent history on its own: the list _load_history returned (what the   *)
(* appends of earlier processes left in the file, at most history_limit     *)
(* entries) and the appends of this process.  An entry is its number in the *)
(* order of all appends; log.loaded is the number of entries loaded.        *)

\* _append_history(record), lines 832-834.
AppendRecord ==
  /\ calls["append"] < MaxAppends
  /\ calls' = [calls EXCEPT !["append"] = @ + 1]
  /\ sharing_history' = AppendHistory(sharing_history, log.loaded + calls["append"] + 1)
  /\ UNCHANGED <<now, conf, state_file, lock_holder, last_share_time, is_terminated, run,
                 log>>

InitHist ==
  /\ now = StartTime
  /\ conf = EmptyDict
  /\ state_file = EmptyDict
  /\ \E n \in 0..history_limit :
       /\ sharing_history = [i \in 1..n |-> i]
       /\ log = [loaded |-> n]
  /\ lock_holder = None
  /\ last_share_time = NoTime
  /\ is_terminated = FALSE
  /\ run = [t \in Tasks |-> IdleRun]
  /\ calls = [k \in {"append"} |-> 0]

NextHist == AppendRecord

SpecHist == InitHist /\ [][NextHist]_vars

-----------------------------------------------------------------------------
(* The claims about runs, checked under Spec.                               *)

\* C1: at most one share run (cron, command or tool) is executing at any time.
AtMostOneRun == Cardinality({t \in Tasks : Running(t)}) <= 1

\* C2: a command or tool call that arrives while another task's run is in progress
\* starts no run of its own.
ManualTriggerRejected ==
  [][\A t \in {"cmd", "tool"} :
       (run[t].pc = "idle" /\ \E u \in Tasks \ {t} : Running(u)) =>
         run'[t].pc = "idle"]_vars

\* A task starts a run in this step.
Starts(t) == ~Running(t) /\ run'[t].pc \notin {"idle", "jitter"}

\* C3: a run is executed only if its trigger arrived at least 60 seconds after the
\* trigger of the run executed before it: of two runs triggered within the debounce
\* window the second is skipped.
OneRunPerDebounceWindow ==
  [][((\E t \in Tasks : Starts(t)) /\ log.triggered /= NoTime) =>
       log'.triggered - log.triggered >= DebounceSeconds]_vars

\* C6: no step of a run with a forced type changes the persisted schedule state.
ForcedRunKeepsSchedule ==
  [][\A t \in Runs :
       (run[t].force_type /= None /\ run'[t] /= run[t]) =>
         ScheduleState(state_file') = ScheduleState(state_file)]_vars

\* C8: the state file and the history change only in a step of the task that holds
\* the run lock.
WritesUnderLock ==
  [][(state_file' /= state_file \/ sharing_history' /= sharing_history) =>
       (lock_holder /= None /\ run'[lock_holder] /= run[lock_holder])]_vars

\* C9: while the plugin is not shut down, a run ends only after its last recipient,
\* and goes through its recipients one by one: a failure at one of them (no content,
\* an exception in generation or delivery) does not keep the later ones from being
\* processed.
FailureKeepsLaterRecipients ==
  [][\A t \in Runs :
       (run[t].pc \in {"hist", "upd_load", "save_load", "save_write", "sleep"}
          /\ run[t].idx < Len(run[t].targets) /\ ~is_terminated'
          /\ run'[t] /= run[t]) =>
         /\ run'[t].pc /= "idle"
         /\ run'[t].targets = run[t].targets
         /\ run'[t].idx \in {run[t].idx, run[t].idx + 1}
         /\ run[t].pc = "sleep" => run'[t].idx = run[t].idx + 1]_vars

\* The cron run is at its second recipient after its first one failed with an
\* exception (no entry) or without content (a failure entry).
SecondRecipientAfterFailure ==
  /\ calls["fault"] = 1
  /\ calls["manual"] = 0
  /\ calls["cron"] = 1
  /\ run["cron"].pc = "hist"
  /\ run["cron"].idx = 2
  /\ \A i \in DOMAIN sharing_history : ~sharing_history[i].success

\* C10: no history entry says success for a recipient the message was not
\* delivered to.
SuccessMeansDelivered ==
  \A i \in DOMAIN sharing_history :
    sharing_history[i].success => sharing_history[i].delivered

\* The keys topics are recorded under.
TopicKeys == {TopicKey(stype) : stype \in TopicTypes}

\* C20: a topic whose record has been written is in the result of every later query:
\* no step of a run, a command or a tool call (the reset command aside) takes a topic
\* out of what the state file reports for its target and key.
RecordedTopicsQueried ==
  [][calls'["reset"] = calls["reset"] =>
       \A uid \in SessionTargets, key_type \in TopicKeys :
         Elems(UsedTopics(state_file, key_type, uid))
           \subseteq Elems(UsedTopics(state_file', key_type, uid))]_vars

-----------------------------------------------------------------------------
(* The claims about the rotation, checked under SpecSeq.                    *)

\* The step is a decision that consulted the rotation.
RotationStep == calls'["decide"] /= calls["decide"] /\ UsesRotation(conf)

\* C4: with sharing_type "auto", a sequence [A,B,C] and a freshly reset state, the
\* consecutive decisions within one period return A, B, C, A in that order, and the
\* persisted sequence_index is 1 after the first decision.
RotationCorrect ==
  LET seq == SequenceFor(conf, log.period)
  IN (log.fresh /\ UsesRotation(conf) /\ log.trace /= <<>> /\ Len(seq) = 3) =>
       /\ \A i \in DOMAIN log.trace : log.trace[i] = seq[((i - 1) % 3) + 1]
       /\ Len(log.trace) = 1 => state_file["sequence_index"] = 1

\* Four decisions in a row were made on a three-element sequence from a fresh state.
RotationFourCalls ==
  /\ log.fresh
  /\ UsesRotation(conf)
  /\ Len(log.trace) = 4
  /\ Len(SequenceFor(conf, log.period)) = 3

\* C5: a decision made in a period other than the persisted last_period returns the
\* first element of the new period's sequence, whatever the cursor was.
PeriodChangeResets ==
  [][(RotationStep /\ Get(LoadState(state_file), "last_period", None) /= CurrPeriod) =>
       log'.last = SequenceFor(conf, CurrPeriod)[1]]_vars

\* The last decision saw the period change with the cursor beyond the first entry of
\* a sequence that has more than one.
PeriodChangedWithCursor ==
  /\ log.changed
  /\ log.prior > 0
  /\ Len(log.used) > 1
  /\ log.prior < Len(log.used)
  /\ log.last = log.used[1]

\* C7: right after a decision the persisted sequence_index is less than the length
\* of the sequence of the persisted last_period, for every configuration and every
\* prior state.
CursorInRange ==
  [][RotationStep =>
       /\ state_file'["sequence_index"] >= 0
       /\ state_file'["sequence_index"] <
            Len(SequenceFor(conf', state_file'["last_period"]))]_vars

\* The last decision found a cursor beyond its sequence (the sequence was shrunk),
\* or at the sequence's last entry.
CursorWasAtOrPastEnd ==
  /\ log.used /= <<>>
  /\ log.prior >= Len(log.used) - 1
  /\ ~log.changed
  /\ "sequence_index" \in DOMAIN state_file
  /\ state_file["sequence_index"] = IF log.prior >= Len(log.used) THEN 1 % Len(log.used)
                                    ELSE 0

\* The step is a decision that consulted the rotation and found no sequence
\* configured for the current period.
UnconfiguredStep == RotationStep /\ conf.sequences[CurrPeriod] = <<>>

\* C26 as stated: with no sequence configured for the current period the decision
\* uses a single-element default, so it returns that one element and leaves the
\* cursor at 0.
EmptyFallsBackToSingleton ==
  [][UnconfiguredStep =>
       /\ Len(log'.used) = 1
       /\ log'.last = log'.used[1]
       /\ state_file'["sequence_index"] = 0]_vars

\* C26, amended: with no sequence configured for the current period the decision
\* rotates through the built-in sequence of that period (SHARING_TYPE_SEQUENCES, one
\* or two entries): it returns the entry at the cursor (0 after a period change or
\* when out of range), which is a content type, and persists the cursor after it.
EmptyFallsBackToBuiltIn ==
  [][UnconfiguredStep =>
       LET builtin == SHARING_TYPE_SEQUENCES[CurrPeriod]
           loaded == LoadState(state_file)
           at == IF Get(loaded, "last_period", None) /= CurrPeriod THEN 0
                 ELSE Get(loaded, "sequence_index", 0)
           cursor == IF at >= Len(builtin) THEN 0 ELSE at
       IN /\ log'.last = builtin[cursor + 1]
          /\ log'.last \in SharingTypes
          /\ state_file'["last_type"] = log'.last
          /\ state_file'["sequence_index"] = (cursor + 1) % Len(builtin)]_vars

\* The last decision took the second entry of a built-in two-entry sequence.
BuiltInSecondEntry ==
  /\ log.used = <<"news", "knowledge">>
  /\ ~log.changed
  /\ log.prior = 1
  /\ log.last = "knowledge"
  /\ state_file["sequence_index"] = 0

\* The step is the reset command.
ResetStep ==
  /\ log' = [NoTrace EXCEPT !.fresh = TRUE]
  /\ UNCHANGED <<now, conf, calls>>

\* C31: the reset command leaves cursor 0 and no last period in the state file, and a
\* decision that finds the file so returns the first entry of the sequence of the
\* period it is made in.
ResetRestartsRotation ==
  [][/\ ResetStep =>
          /\ DOMAIN state_file' = {"sequence_index", "last_period"}
          /\ state_file'["sequence_index"] = 0
          /\ state_file'["last_period"] = None
     /\ (RotationStep /\ DOMAIN state_file = {"sequence_index", "last_period"}
                      /\ state_file["last_period"] = None) =>
          LET seq == IF conf.sequences[CurrPeriod] /= <<>> THEN conf.sequences[CurrPeriod]
                     ELSE SHARING_TYPE_SEQUENCES[CurrPeriod]
          IN /\ log'.last = seq[1]
             /\ state_file'["last_type"] = seq[1]]_vars

\* A decision had moved the cursor, the sequence was reset, and the decision after
\* the reset took the first entry of a sequence of three.
FirstEntryAfterReset ==
  /\ log.fresh
  /\ Len(log.trace) = 1
  /\ calls["decide"] >= 2
  /\ Len(log.used) = 3
  /\ log.last = log.used[1]
  /\ UsesRotation(conf)

\* C39: under the rotation, the sequence the view command lists is the sequence the
\* next decision uses, and the one position it marks holds the type that decision
\* takes.
ViewShowsNextDecision ==
  UsesRotation(conf) =>
    LET view == ViewSeq(conf, state_file, CurrPeriod)
        next == DecideState(LoadState(state_file), CurrPeriod, conf, now)
    IN /\ view.seq = SequenceFor(conf, CurrPeriod)
       /\ \E i \in view.marked :
            view.marked = {i} /\ view.seq[i + 1] = next["last_type"]

-----------------------------------------------------------------------------
(* The claims about the suppression policy, checked under SpecPolicy.       *)

\* The snapshot the policy was last called with.
SeenInfo == log.hist_data["group_info"]

\* C11: for every intensity and is_discussing, check_group_strategy returns False
\* under "cautious" exactly when is_discussing and intensity is high, and under
\* "minimal" exactly when is_discussing or intensity is not low.
StrategyTable ==
  (log.checked /\ SeenInfo /= EmptyDict) =>
    /\ conf.group_share_strategy = "cautious" =>
         (~log.result <=>
            (SeenInfo["is_discussing"] /\ SeenInfo["chat_intensity"] = "high"))
    /\ conf.group_share_strategy = "minimal" =>
         (~log.result <=>
            (SeenInfo["is_discussing"] \/ SeenInfo["chat_intensity"] /= "low"))

\* The policy was called under "minimal" for a quiet group of medium intensity, and
\* returned False.
MinimalSuppressedMedium ==
  /\ log.checked
  /\ SeenInfo /= EmptyDict
  /\ conf.group_share_strategy = "minimal"
  /\ ~SeenInfo["is_discussing"]
  /\ SeenInfo["chat_intensity"] = "medium"
  /\ ~log.result

\* C12: a one-to-one recipient, or a group recipient without a snapshot, is never
\* passed over by the policy, whatever the strategy.
NoSnapshotNeverSkipped ==
  (log.uid /= NoTarget
     /\ (~IsGroup(log.uid) \/ "group_info" \notin DOMAIN log.hist_data
           \/ log.hist_data["group_info"] = EmptyDict)) =>
    ~log.skipped

\* Under "minimal", a broadcast run went on with a group without a snapshot.
GroupWithoutSnapshotProcessed ==
  /\ conf.group_share_strategy = "minimal"
  /\ log.uid /= NoTarget
  /\ IsGroup(log.uid)
  /\ log.broadcast
  /\ "group_info" \notin DOMAIN log.hist_data
  /\ ~log.skipped

\* The policy of the configuration holds back a group with this snapshot.
HeldBack(info) ==
  /\ info /= EmptyDict
  /\ \/ /\ conf.group_share_strategy = "cautious"
        /\ info["is_discussing"] /\ info["chat_intensity"] = "high"
     \/ /\ conf.group_share_strategy = "minimal"
        /\ info["is_discussing"] \/ info["chat_intensity"] /= "low"

\* C35: the step of a broadcast run that handles a group the policy holds back writes
\* no history entry and no topic record, asks for no generation (none fails, no topic
\* is taken up) and delivers nothing: the run goes straight to its next recipient.
SuppressedLeavesNoTrace ==
  [][\A t \in Runs :
       (/\ run[t].pc = "hist"
        /\ run'[t] /= run[t]
        /\ run[t].specific_target = NoTarget
        /\ run[t].targets[run[t].idx][1] = "GroupMessage"
        /\ "group_info" \in DOMAIN log'.hist_data
        /\ HeldBack(log'.hist_data["group_info"])) =>
         /\ sharing_history' = sharing_history
         /\ state_file' = state_file
         /\ calls' = calls
         /\ run'[t].pc \in {"hist", "idle"}
         /\ run'[t].pc = "hist" => /\ run'[t].idx = run[t].idx + 1
                                   /\ run'[t].topic = <<>>
                                   /\ run'[t].st = EmptyDict]_vars

\* Under "cautious", a broadcast run passed over a group in a lively discussion and
\* nothing has been sent or recorded.
LivelyGroupPassedOver ==
  /\ conf.group_share_strategy = "cautious"
  /\ log.broadcast
  /\ log.skipped
  /\ log.checked
  /\ SeenInfo /= EmptyDict
  /\ SeenInfo["is_discussing"]
  /\ SeenInfo["chat_intensity"] = "high"
  /\ sharing_history = <<>>

-----------------------------------------------------------------------------
(* The claims about the news source, checked under SpecNews.                *)

\* The last call was a time-based selection.
TimeBasedSelection ==
  log.op = "select" /\ Get(conf, "news_random_mode", "config") = "time_based"

\* C13: a selection with an exclusion label (modes random, config and time_based)
\* returns the excluded label only when the weight table of the period has exactly
\* one entry.
ExcludedNeverSelected ==
  (/\ log.op = "select"
   /\ Get(conf, "news_random_mode", "config") \in {"random", "config", "time_based"}
   /\ log.excluded /= None
   /\ log.selected = log.excluded)
    => Cardinality(DOMAIN NEWS_TIME_PREFERENCES[CurrNewsPeriod]) = 1

\* C14: a time-based selection returns a label and never raises, whatever the
\* allow-list and the exclusion label.
TimeBasedAlwaysReturns ==
  TimeBasedSelection => log.selected \notin Raised

\* C15: in a time-based selection every candidate that survived the exclusion and the
\* allow-list can be returned.
EverySurvivorSelectable ==
  TimeBasedSelection =>
    \A s \in Survivors(conf, CurrNewsPeriod, log.excluded) :
      s \in select_by_time(conf, CurrNewsPeriod, log.excluded)

\* C16: a call of get_hot_news fetches at most twice, the second time only after the
\* first fetch failed, from a source of the pool other than the one that failed.
AtMostOneRetry ==
  /\ calls["fetch"] <= 2
  /\ log.op = "news" => calls["fetch"] = Len(log.fetched)
  /\ Len(log.fetched) = 2 =>
       /\ ~log.fetched[1].ok
       /\ log.fetched[2].source /= log.fetched[1].source
       /\ log.fetched[2].source \in Pool(conf)

\* A call fetched the primary source and then a fallback source.
RetriedOnce ==
  /\ log.op = "news"
  /\ Len(log.fetched) = 2
  /\ run.pc = "idle"

-----------------------------------------------------------------------------
(* The claims about the topic history, checked under SpecTopics.            *)

\* C19: recording further topics never takes an earlier recorded topic out of what is
\* reported for its target and key (the history holds no age, so nothing expires).
EarlierTopicsKept ==
  [][\A uid \in SessionTargets, key_type \in TopicKeys :
       Elems(UsedTopics(state_file, key_type, uid))
         \subseteq Elems(UsedTopics(state_file', key_type, uid))]_vars

\* C21: the topic chosen and recorded for a target is not one the state file already
\* reports as used for that target and key when the generation reads the list.
TopicNotRepeated ==
  [][(run["tool"].pc = "idle" /\ run'["tool"].pc = "upd_load") =>
       Summary(run'["tool"].topic)
         \notin Elems(UsedTopics(state_file, TopicKey(run'["tool"].stype),
                                 run'["tool"].targets[1]))]_vars

-----------------------------------------------------------------------------
(* The claims about the database, checked under SpecDb.                     *)

\* The keys of the rows of a target and a category created at or after a time.
KeysSince(rows, target_id, category, since) ==
  LET hit == SelectSeq(rows, LAMBDA r : /\ r.target_id = target_id
                                        /\ r.category = category
                                        /\ r.created_at >= since)
  IN [i \in DOMAIN hit |-> hit[i].content_key]

\* C17: a query returns exactly the keys recorded for its target and category and
\* created at or after the time of the query minus its window, the boundary included.
QueryReturnsWindow ==
  [][(log' /= log /\ log'.op = "query") =>
       log'.result = KeysSince(sharing_history.topic_history, log'.target_id,
                               log'.category, now - log'.days_limit * SecondsPerDay)]_vars

\* A step of the purge: its commit.
PurgeStep == run.clean.pc = "delete" /\ run'.clean.pc = "idle"

\* The retention horizon of the purge in flight: days_limit days before it began.
Horizon == run.clean.at - run.clean.days_limit * SecondsPerDay

\* C18: a purge keeps, in both tables and in their order, every row created at or
\* after its horizon, the rows inserted while it was running among them; purging
\* what it left with the same horizon deletes nothing, and a purge that repeats the
\* last one (same horizon, nothing committed in between) leaves the tables as they
\* are.
PurgeKeepsYoungRows ==
  [][PurgeStep =>
       /\ \A name \in DOMAIN EmptyTables :
            SelectSeq(sharing_history'[name], LAMBDA r : r.created_at >= Horizon)
              = SelectSeq(sharing_history[name], LAMBDA r : r.created_at >= Horizon)
       /\ CleanExpired(sharing_history', run.clean.cutoff) = sharing_history'
       /\ log'.again => sharing_history' = sharing_history]_vars

\* A purge deleted a row and kept a row that was inserted while it was running.
PurgeWithInsertInFlight ==
  /\ log.op = "purge"
  /\ log.deleted > 0
  /\ log.kept_new > 0

\* A purge has been run twice with the same horizon.
PurgedTwice ==
  /\ log.op = "purge"
  /\ log.again
  /\ Len(sharing_history.topic_history) < calls["record"]

\* C23: once the plugin is terminated, a cron task that is not executing a run (it is
\* in its jitter sleep, or has not started) is ended: the sleep is cancelled and the
\* task never reaches the decision, a generation, a delivery or a history append.
JitterNeverRuns ==
  [][(is_terminated' /\ ~Running("cron")) => run'["cron"].pc = "idle"]_vars

\* The job fired into its jitter sleep and the plugin was terminated before any run
\* had started.
TerminatedInJitter ==
  /\ is_terminated
  /\ log.fired /= NoTime
  /\ log.triggered = NoTime
  /\ calls["manual"] = 0
  /\ last_share_time = NoTime
  /\ sharing_history = <<>>

\* A run is in the middle of a recipient: between get_history_data and the
\* recipient's history entry.
MidRecipient(t) == run[t].pc \in {"hist", "upd_load", "save_load", "save_write"}

\* C24: a termination that arrives while a run is in the middle of a recipient leaves
\* that recipient's processing to go on, and the entry then appended for the
\* recipient is the entry of a delivery that took place.
ShutdownDrainsRecipient ==
  [][/\ (~is_terminated /\ is_terminated') =>
          \A t \in Runs : MidRecipient(t) => run'[t] = run[t]
     /\ (is_terminated /\ sharing_history' /= sharing_history /\ calls' = calls) =>
          LET e == sharing_history'[Len(sharing_history')]
          IN e.success => e.delivered]_vars

\* The recipients of a broadcast in the order of the configuration: the groups as
\* listed, then the users as listed.
GroupsThenUsers ==
  LET n == Len(conf.groups)
  IN [i \in 1..(n + Len(conf.users)) |->
        IF i <= n THEN <<"GroupMessage", conf.groups[i]>>
        ELSE <<"FriendMessage", conf.users[i - n]>>]

\* C25: a run takes its recipients one at a time in a fixed order (for a broadcast the
\* groups, then the users), a history entry is always for the recipient in progress,
\* and the next recipient is begun only when the one before has its outcome: its
\* entry (the run was in its pause), a skip or a logged exception (nothing appended).
SequentialRecipients ==
  [][\A t \in Runs :
       /\ (run'[t].pc /= "idle" /\ run'[t].idx > 0 /\ run'[t].specific_target = NoTarget)
            => run'[t].targets = GroupsThenUsers
       /\ (run'[t].pc /= "idle" /\ run'[t].idx /= run[t].idx) =>
            /\ run'[t].idx = run[t].idx + 1
            /\ run'[t].pc = "hist"
            /\ \/ run[t].idx = 0
               \/ run[t].pc = "sleep"
               \/ run[t].pc \in {"hist", "save_write"} /\ sharing_history' = sharing_history
       /\ (run'[t] /= run[t] /\ sharing_history' /= sharing_history) =>
            /\ MidRecipient(t)
            /\ sharing_history'[Len(sharing_history')].target = run[t].targets[run[t].idx]
            /\ run'[t].pc = "sleep"
            /\ run'[t].idx = run[t].idx]_vars

\* A broadcast has recorded its first recipient and is at its second.
SecondRecipientBegun ==
  \E t \in Runs :
    /\ run[t].specific_target = NoTarget
    /\ run[t].pc = "hist"
    /\ run[t].idx = 2
    /\ \E i \in DOMAIN sharing_history : sharing_history[i].target = run[t].targets[1]

\* The cursor a decision of period p has to start from, given the state file.
CursorInFile(file, p) ==
  LET st == LoadState(file)
      seq == SequenceFor(conf, p)
      at == IF Get(st, "last_period", None) /= p THEN 0 ELSE Get(st, "sequence_index", 0)
  IN IF at >= Len(seq) THEN 0 ELSE at

\* C36: every decision that is written moves the persisted cursor one step on from
\* where the file has it at that moment, and nothing but a decision or the reset
\* command changes the cursor the file holds for the current period: so after k
\* decisions of a period the cursor is k modulo the length of the sequence.
CursorAdvancesOnce ==
  [][/\ \A t \in Runs :
          (run[t].pc = "decide_write" /\ state_file' = run[t].st
             /\ run'[t].pc /= "decide_write") =>
            run[t].st["sequence_index"] =
              (CursorInFile(state_file, run[t].period) + 1)
                % Len(SequenceFor(conf, run[t].period))
     /\ CursorInFile(state_file', CurrPeriod) /= CursorInFile(state_file, CurrPeriod) =>
          \/ \E t \in Runs : run[t].pc = "decide_write" /\ state_file' = run[t].st
          \/ calls'["reset"] /= calls["reset"]]_vars

\* C37: the reset command leaves the used topics of every target and key as the state
\* file had them before it.
ResetKeepsUsedTopics ==
  [][calls'["reset"] /= calls["reset"] =>
       \A uid \in SessionTargets, key \in {"knowledge", "rec"} :
         UsedTopics(state_file', key, uid) = UsedTopics(state_file, key, uid)]_vars

-----------------------------------------------------------------------------
(* The claims about the sent history, checked under SpecHist.               *)

\* The entries appended so far, the loaded ones included.
Appended == log.loaded + calls["append"]

\* C22: the sent history holds at most history_limit entries, and they are the most
\* recently appended ones in the order of their appends.
HistoryIsRecentWindow ==
  /\ Len(sharing_history) <= history_limit
  /\ Len(sharing_history) = IF Appended < history_limit THEN Appended ELSE history_limit
  /\ \A i \in DOMAIN sharing_history :
       sharing_history[i] = Appended - Len(sharing_history) + i

\* Appends went on beyond the limit: the oldest entries are gone.
OldestEvicted ==
  /\ calls["append"] >= 2
  /\ Len(sharing_history) = history_limit
  /\ sharing_history[1] > 2

-----------------------------------------------------------------------------
(* The claims about persistence failures and restarts, under SpecPersist.   *)

\* The step is the return of an automatic decision.
DecisionReturns == calls'["decide"] /= calls["decide"]

\* C27: whether or not _load_state or _save_state failed, the decision returns the
\* content type at the cursor of the state it holds in memory (the default state, so
\* cursor 0, after a failed load) and the run goes on to its first recipient.
DecisionSurvivesPersistence ==
  [][DecisionReturns =>
       LET r == run["cron"]
           seq == IF conf.sequences[r.period] /= <<>> THEN conf.sequences[r.period]
                  ELSE SHARING_TYPE_SEQUENCES[r.period]
           at == IF Get(log.loaded, "last_period", None) /= r.period THEN 0
                 ELSE Get(log.loaded, "sequence_index", 0)
           cursor == IF at >= Len(seq) THEN 0 ELSE at
       IN /\ ~log.load_ok => log.loaded = ResetState
          /\ run'["cron"].stype = seq[cursor + 1]
          /\ run'["cron"].stype \in SharingTypes
          /\ run'["cron"].pc = "hist"
          /\ run'["cron"].idx = 1
          /\ lock_holder' = "cron"]_vars

\* In the decision of the run in progress both the load and the save failed, and the
\* run is at its first recipient.
RunAfterFailedLoadAndSave ==
  /\ ~log.load_ok
  /\ ~log.save_ok
  /\ calls["decide"] >= 1
  /\ run["cron"].pc = "hist"
  /\ run["cron"].stype \in SharingTypes

\* C28: a decision that loads the state in the period of the cursor last persisted by
\* a decision takes up the rotation at that cursor, whether or not the process was
\* restarted in between.
ResumesAtPersistedCursor ==
  [][(/\ run["cron"].pc = "decide_load"
      /\ run'["cron"].pc = "decide_write"
      /\ log'.load_ok
      /\ log.persisted.period = run["cron"].period) =>
       LET p == run["cron"].period
           seq == IF conf.sequences[p] /= <<>> THEN conf.sequences[p]
                  ELSE SHARING_TYPE_SEQUENCES[p]
           st == run'["cron"].st
       IN /\ log.persisted.index < Len(seq)
          /\ st["last_type"] = seq[log.persisted.index + 1]
          /\ st["sequence_index"] = (log.persisted.index + 1) % Len(seq)]_vars

\* After a restart the run in progress took the second entry of its sequence, the
\* first having been taken before the restart.
SecondEntryAfterRestart ==
  /\ log.resumed
  /\ log.persisted.index = 1
  /\ run["cron"].pc = "decide_write"
  /\ Len(SequenceFor(conf, run["cron"].period)) > 1
  /\ run["cron"].st["last_type"] = SequenceFor(conf, run["cron"].period)[2]

-----------------------------------------------------------------------------
(* The claims about the group analysis, checked under SpecChat.             *)

\* The supplied messages inside the activity window of 1200 seconds.
InWindow ==
  {i \in DOMAIN run.messages :
     run.messages[i] /= NoTime /\ run.messages[i] >= now - ActiveWindowSeconds}

\* C29: the intensity is high when more than 0.5 * check_count of the supplied
\* messages are inside the window, medium when it is not high and more than
\* 0.16 * check_count are, low otherwise.
IntensityOfSuppliedMessages ==
  (log.done /\ run.messages /= <<>>) =>
    LET n == Cardinality(InWindow)
        check_count == conf.group_intensity_check_count
        high == 2 * n > check_count
        medium == ~high /\ 100 * n > 16 * check_count
    IN /\ log.group_info["chat_intensity"] = "high" <=> high
       /\ log.group_info["chat_intensity"] = "medium" <=> medium
       /\ log.group_info["chat_intensity"] = "low" <=> ~high /\ ~medium

\* C30: is_discussing is true exactly when the latest of the supplied messages is
\* less than 600 seconds old (it is absent, so read as false, when there is no
\* message), and when it is true the reported message_count is at least 1.
DiscussingIffLatestIsFresh ==
  log.done =>
    IF run.messages = <<>> THEN log.group_info = EmptyDict
    ELSE /\ log.group_info["is_discussing"] <=>
              \E i \in DOMAIN run.messages :
                /\ run.messages[i] /= NoTime
                /\ now - run.messages[i] < DiscussingSeconds
         /\ log.group_info["is_discussing"] => log.group_info["message_count"] >= 1

-----------------------------------------------------------------------------
(* The claim about the period classifiers, checked under SpecClock.         *)

\* The periods with their first hour and the hour after their last.
PeriodRanges ==
  <<<<"dawn", 0, 6>>, <<"morning", 6, 9>>, <<"forenoon", 9, 12>>,
    <<"afternoon", 12, 16>>, <<"evening", 16, 19>>, <<"night", 19, 22>>,
    <<"late_night", 22, 24>>>>

\* C32: both classifiers give every hour of the day the one period whose range
\* [first, after) holds the hour, the ranges being dawn [0,6), morning [6,9),
\* forenoon [9,12), afternoon [12,16), evening [16,19), night [19,22) and
\* late_night [22,24): they follow one another from 0 to 24 without gap or overlap.
PeriodsPartitionTheDay ==
  /\ PeriodRanges[1][2] = 0
  /\ PeriodRanges[Len(PeriodRanges)][3] = HoursPerDay
  /\ \A i \in 1..(Len(PeriodRanges) - 1) : PeriodRanges[i][3] = PeriodRanges[i + 1][2]
  /\ log.done =>
       LET h == (now \div SecondsPerHour) % HoursPerDay
           holding == {i \in DOMAIN PeriodRanges :
                         PeriodRanges[i][2] <= h /\ h < PeriodRanges[i][3]}
       IN /\ Cardinality(holding) = 1
          /\ \A i \in holding : /\ log.period = PeriodRanges[i][1]
                                /\ log.news_period = PeriodRanges[i][1]
          /\ log.period \in TimePeriods

\* The last second of the evening has been classified.
EveningEndClassified ==
  /\ log.done
  /\ now = 19 * SecondsPerHour - 1
  /\ log.period = "evening"
  /\ log.news_period = "evening"

-----------------------------------------------------------------------------
(* The claim about the generation wrapper, checked under SpecLlm.           *)

\* C33: a call of the wrapper makes at most max_retries + 1 attempts; while it has
\* not returned it has a next step (an attempt, the end of a pause), each attempt
\* uses up one of the max_retries + 1, and what it returns is a text (that of its
\* last attempt) or None.
WrapperIsBounded ==
  /\ calls["attempt"] <= conf.max_retries + 1
  /\ calls["attempt"] = Len(log)
  /\ run.pc \in {"attempt", "backoff"} =>
       /\ run.attempt < conf.max_retries + 1
       /\ calls["attempt"] <= run.attempt + 1
       /\ run.pc = "attempt" => calls["attempt"] = run.attempt
       /\ ENABLED (LlmAttempt \/ Backoff)
  /\ run.pc = "done" =>
       /\ run.result \in {"text", None}
       /\ run.result = "text" <=> (log /= <<>> /\ log[Len(log)] = "text")
  /\ run.pc \in {"idle", "attempt", "backoff", "done"}

\* Every attempt of a call with two retries failed, in three different ways, and the
\* call returned None.
AllAttemptsFailed ==
  /\ conf.max_retries = 2
  /\ log = <<"timeout", "empty", "error">>
  /\ run.pc = "done"
  /\ run.result = None

-----------------------------------------------------------------------------
(* The claim about _send, checked under SpecSend.                           *)

\* The messages sent that carry a component of this kind.
Carrying(kind) == {i \in DOMAIN log.sent : kind \in log.sent[i]}

\* C40: when _send has run through with an image, the image went out exactly once if
\* there is no video, and with a video the video went out and the image did not.
ImageDeliveredOnce ==
  (log.done /\ ~log.failed /\ ~is_terminated /\ run.img_path) =>
    IF run.video_url
    THEN Cardinality(Carrying("video")) = 1 /\ Carrying("image") = {}
    ELSE Cardinality(Carrying("image")) = 1

-----------------------------------------------------------------------------
(* The claims about the cron job, checked under SpecCron.                   *)

\* C38: while auto sharing stays disabled, no cron run starts.
NoRunWhileDisabled ==
  [][(~conf.enable_auto_sharing /\ ~conf'.enable_auto_sharing) =>
       ~(lock_holder = None /\ lock_holder' = "cron")]_vars

\* The step starts a cron run: the trigger passed the checks and took the lock.
CronRunStarts == lock_holder = None /\ lock_holder' = "cron"

\* The step is the point where a trigger is checked (the job fires without a delay,
\* or its jitter sleep returns) and finds the run ended and the debounce time over.
TriggerAfterRunEnded ==
  /\ \/ calls'["cron"] /= calls["cron"] /\ run'["cron"].pc /= "jitter"
     \/ run["cron"].pc = "jitter" /\ run'["cron"].pc /= "jitter"
  /\ lock_holder = None
  /\ last_share_time /= NoTime
  /\ now - last_share_time >= DebounceSeconds

\* C34: a cron run that holds the lock comes to release it and to be idle again, also
\* when _execute_share raises; and a trigger checked after the run ended and the
\* debounce time passed starts a run.
CronRunEnds ==
  /\ (lock_holder = "cron") ~> (lock_holder = None /\ run["cron"].pc = "idle")
  /\ [][(lock_holder = "cron") = Running("cron")]_vars
  /\ [][TriggerAfterRunEnded =>
          /\ CronRunStarts
          /\ last_share_time' = now
          /\ Running("cron")']_vars

\* A first run ended, and the trigger of the next minute has just started a second.
SecondRunExecutes ==
  /\ calls["cron"] = 2
  /\ lock_holder = "cron"
  /\ last_share_time = StartTime + DebounceSeconds
  /\ run["cron"].pc = "decide_load"
  /\ Get(state_file, "last_period", None) = "morning"

\* A run ended by an exception of _execute_share, the lock released.
RunEndedByRaise ==
  /\ calls["fault"] > 0
  /\ lock_holder = None
  /\ run["cron"].pc = "idle"
  /\ last_share_time /= NoTime
  /\ sharing_history = <<>>

====
